---- MODULE Spec2Model ----
(***************************************************************************)
(* Model of openclaw-hindsight: the debounced file watcher (FileWatcher),  *)
(* the memory_search tool with its health gate and local fallback, the     *)
(* health probe, the recall pipeline and the local fallback search.        *)
(*                                                                         *)
(* Time is discrete.  A timer set with setTimeout(f, d) at time t is due   *)
(* at t + d; time does not advance past a due timer, and the order of the  *)
(* steps that happen within one instant (a due timer's callback, a file    *)
(* system event, a completion of I/O) is not determined.                   *)
(***************************************************************************)
EXTENDS Integers, Sequences, FiniteSets, Bags, TLC

\* ------------------------------------------------------------------ bounds
MaxTime == 4
MaxWatchers == 2
\* cfg.retainDebounceMs, in ticks of the model's clock
DebounceMs == 2
\* the longest file, in lines, the fallback search is run on
MaxLines == 5
\* the largest maxResults a search is called with
MaxK == 2

\* ------------------------------------------------------------- file watcher
MemoryMd == "MEMORY.md"
DailyMd == "memory/2026-02-22.md"
NotesTxt == "memory/notes.txt"

\* Every path the file system reports events for.
Paths == {MemoryMd, DailyMd, NotesTxt}

\* The names readdir reports in memory/.
DailyName == "2026-02-22.md"
OlderName == "2026-02-21.md"
NotesName == "notes.txt"
TopicName == "topics.md"

\* String.prototype.endsWith('.md'), over the paths and names of the model.
EndsWithMd(p) == p \in {MemoryMd, DailyMd, DailyName, OlderName, TopicName}

\* The paths scheduleRetain can be called with, whose content is then read.
MdPaths == {p \in Paths : EndsWithMd(p)}

\* Whether a path lies in the watched directory join(workspacePath, 'memory').
InMemoryDir(p) == p \in {DailyMd, NotesTxt}

EventTypes == {"change", "rename"}

Blank == << >>
\* File contents, as sequences of characters.
Contents == {<<" ", "\n">>, <<" ", "b">>}

IsSpace(ch) == ch \in {" ", "\n"}

\* String.prototype.trim: drops leading and trailing white space.
RECURSIVE TrimStart(_)
TrimStart(s) ==
  IF s = << >> THEN s
  ELSE IF IsSpace(Head(s)) THEN TrimStart(Tail(s)) ELSE s

RECURSIVE TrimEnd(_)
TrimEnd(s) ==
  IF s = << >> THEN s
  ELSE IF IsSpace(s[Len(s)]) THEN TrimEnd(SubSeq(s, 1, Len(s) - 1)) ELSE s

Trim(s) == TrimEnd(TrimStart(s))

Watchers == 1..MaxWatchers
\* The FileWatcher object the scheduler's specification runs.
Scheduler == 1
NoTimer == -1

VARIABLES
  now,            \* the clock
  file,           \* the memory files: path -> content
  abortController,\* per watcher: "null", "live" or "aborted"
  watches,        \* per watcher: the roots with an active fs watch
  debounceTimers, \* per watcher: path -> handle (the deadline) of its timer, or NoTimer
  armed,          \* the host's scheduled timers, each [w, path, deadline]
  callbacks,      \* the bag of timer callbacks in flight: [w, path, phase, content]
  lastEvent,      \* per watcher and path: time of the last scheduleRetain since the
                  \* path's last timer fire, or NoTimer
  coalesced,      \* per watcher and path: the current or latest burst has two or more events
  owedBursts,     \* per watcher and path: bursts begun minus timer fires
  owedRuns,       \* per watcher and path: timers started afresh minus timer fires
  firedOffTime,   \* a callback ran at another time than retainDebounceMs after the last event
  retainAfterStop,\* per watcher: retainFile was called after stop()
  eventContent,   \* per watcher and path: the file's content at the last scheduleRetain
  survivor        \* a timer that was scheduled when another path's callback failed,
                  \* and how far it has come: [t, stage]

watcherVars ==
  << now, file, abortController, watches, debounceTimers, armed, callbacks,
     lastEvent, coalesced, owedBursts, owedRuns, firedOffTime, retainAfterStop,
     eventContent, survivor >>

VARIABLES
  workspace,      \* the workspace a search reads: [memoryMd, dir]
  query,          \* the search's query
  maxResults,     \* the search's maxResults
  fpc,            \* localFallbackSearch: "idle", "call" or "done"
  pushed,         \* localFallbackSearch's results array before the final slice
  fallbackResult  \* what localFallbackSearch returned

fallbackVars == << workspace, query, maxResults, fpc, pushed, fallbackResult >>

VARIABLES
  fallbackToLocal,\* cfg.fallbackToLocal
  spc,            \* memory_search.execute: "idle", "start", "health", "recall" or "done"
  hpc,            \* checkHealth: "idle", "fetching" or "done"
  hClock,         \* seconds since checkHealth was called
  hTimer,         \* checkHealth's abort timer is scheduled
  hResult,        \* what checkHealth returned
  hThrew,         \* checkHealth threw
  hOutcome,       \* how checkHealth's fetch ended: [kind, status, at]
  healthRequests, \* GET requests sent to the banks endpoint
  recallCalls,    \* POST requests sent to the recall endpoint
  fallbackCalls,  \* calls of localFallbackSearch
  recallOutcome,  \* how recall's fetch ended: [kind, status, body]
  recallResult,   \* what recall returned or threw
  sText,          \* the text execute returned
  sDetails        \* the snippets of the details execute returned

searchVars ==
  << fallbackToLocal, spc, hpc, hClock, hTimer, hResult, hThrew, hOutcome,
     healthRequests, recallCalls, fallbackCalls, recallOutcome, recallResult,
     sText, sDetails >>

VARIABLES
  reflectEnabled, \* cfg.reflectEnabled
  tools,          \* the names of the tools register() has registered
  rpc,            \* a retain or reflect call: "unregistered", "idle", "posted" or "settled"
  rOp,            \* the pipeline called: "none", "retain" or "reflect"
  rCaller,        \* who called it
  rItems,         \* the RetainItems a retain call was given
  requests,       \* the requests sent to the remote, in order
  started,        \* retain() and reflect() calls made
  rOutcome,       \* how the fetch of the call ended
  rResult,        \* what retain() or reflect() returned or threw
  rText,          \* what the caller made of it: a tool's text, a log line
  bank            \* the stub remote: the fact sets it holds, [document_id, content]

remoteVars ==
  << reflectEnabled, tools, rpc, rOp, rCaller, rItems, requests, started, rOutcome,
     rResult, rText, bank >>

VARIABLES
  factIn,         \* the fact formatFact is called with
  factOut,        \* what formatFact returned
  fmtpc           \* formatFact: "idle", "call" or "done"

formatVars == << factIn, factOut, fmtpc >>

VARIABLES
  textIn,         \* the response formatRecallText is called with
  textOut,        \* what formatRecallText returned
  textpc          \* formatRecallText: "idle", "call" or "done"

textVars == << textIn, textOut, textpc >>

VARIABLES
  pathIn,         \* the filePath retainFile is called with, as its segments
  itemOut,        \* the item retainFile handed to retain
  itempc          \* retainFile: "idle", "call" or "posted"

itemVars == << pathIn, itemOut, itempc >>

VARIABLES
  env,            \* process.env when the module is loaded: [HINDSIGHT_URL, HINDSIGHT_BANK_ID]
  overrides,      \* api.pluginConfig, the values of the config file
  cfgOut,         \* what getConfig returned
  cfgpc           \* getConfig: "idle", "call" or "done"

cfgVars == << env, overrides, cfgOut, cfgpc >>

VARIABLES
  getIn,          \* the params of a memory_get call: [path, from, lines]
  getRead,        \* the names of the path readFile was called with, or none
  getText,        \* the text memory_get returned
  getpc           \* memory_get.execute: "idle", "call" or "done"

getVars == << getIn, getRead, getText, getpc >>

VARIABLES
  migWorkspace,   \* the workspace the migration script runs on: [memoryMd, dirOk, files]
  dryRun,         \* --dry-run was given
  mpc,            \* the script: "idle", "start", "loop", "done" or "exited"
  migFiles,       \* what collectFiles returned
  migIndex,       \* the loop of main: the files handled so far
  awaiting,       \* main awaits retainItems
  posted,         \* the retain requests sent, in order
  outcomes,       \* how each retain ended, in order: "ok" or "failed"
  succeeded,      \* main's counters
  failed

migVars ==
  << migWorkspace, dryRun, mpc, migFiles, migIndex, awaiting, posted, outcomes,
     succeeded, failed >>

VARIABLES
  fileWatcher,    \* register's variable: 0 for null, or the FileWatcher last created
  service         \* the 'hindsight-file-watcher' service as the host left it:
                  \* "registered", "started" or "stopped"

svcVars == << fileWatcher, service >>

VARIABLES
  autoRetain,     \* cfg.autoRetain
  hookNow,        \* the instant of the clock, an index of Instants
  hookTurns,      \* the agent_end events emitted, each with what its handler did
  hookAwaiting,   \* the turns whose retainFile is awaited
  hookAccepted,   \* the turns whose request the remote has stored, in order
  hookBank,       \* the stub remote
  hookLog         \* the handler's last log line

hookVars == << autoRetain, hookNow, hookTurns, hookAwaiting, hookAccepted, hookBank, hookLog >>

VARIABLES
  autoRecall,     \* cfg.autoRecall
  bpc,            \* the before_agent_start handler: "idle", "start", "health", "recall" or "done"
  bPrompt,        \* event.prompt
  bReturn,        \* the prependContext the handler returned, or Undefined
  bThrew,         \* whether the handler's promise rejected
  bLog            \* the handler's log line

recallHookVars == << autoRecall, bpc, bPrompt, bReturn, bThrew, bLog >>

vars == << watcherVars, fallbackVars, searchVars, remoteVars, formatVars, textVars, itemVars, cfgVars, getVars, migVars, svcVars, hookVars, recallHookVars >>

\* --------------------------------------------------------------- strings
Max(a, b) == IF a >= b THEN a ELSE b
Min(a, b) == IF a <= b THEN a ELSE b

\* Array.prototype.slice(from, to) and String.prototype.slice, on 0-based indices.
Slice(s, from, to) ==
  LET n == Len(s)
      lo == IF from < 0 THEN Max(n + from, 0) ELSE Min(from, n)
      hi == IF to < 0 THEN Max(n + to, 0) ELSE Min(to, n)
  IN IF lo >= hi THEN << >> ELSE SubSeq(s, lo + 1, hi)

\* The characters files and queries are written with.
Lower(ch) == IF ch = "A" THEN "a" ELSE IF ch = "B" THEN "b" ELSE ch

\* String.prototype.toLowerCase
ToLowerCase(s) == [i \in 1..Len(s) |-> Lower(s[i])]

\* String.prototype.includes
Includes(s, q) ==
  \E i \in 1..(Len(s) - Len(q) + 1) : SubSeq(s, i, i + Len(q) - 1) = q

RECURSIVE Split(_, _)
\* String.prototype.split(sep), for a separator of one character.
Split(s, sep) ==
  IF \A i \in 1..Len(s) : s[i] # sep THEN << s >>
  ELSE LET i == CHOOSE k \in 1..Len(s) : s[k] = sep /\ \A j \in 1..(k - 1) : s[j] # sep
       IN << SubSeq(s, 1, i - 1) >> \o Split(SubSeq(s, i + 1, Len(s)), sep)

RECURSIVE Join(_, _)
\* Array.prototype.join(sep), of an array of strings.
Join(ls, sep) ==
  IF ls = << >> THEN << >>
  ELSE IF Len(ls) = 1 THEN ls[1]
  ELSE ls[1] \o sep \o Join(Tail(ls), sep)

\* The workspace root, join(workspacePath, name) and relative(workspacePath, filePath).
WorkspacePath == "/ws"
FilePath(p) == << WorkspacePath, p >>
Relative(root, filePath) == IF filePath[1] = root THEN filePath[2] ELSE "../" \o filePath[2]

NoSurvivor == [t |-> [w |-> 0, path |-> "", deadline |-> -1], stage |-> "none"]

WatcherInit ==
  /\ now = 0
  /\ file = [p \in MdPaths |-> <<" ", "b">>]
  /\ abortController = [w \in Watchers |-> "null"]
  /\ watches = [w \in Watchers |-> {}]
  /\ debounceTimers = [w \in Watchers |-> [p \in MdPaths |-> NoTimer]]
  /\ armed = {}
  /\ callbacks = EmptyBag
  /\ lastEvent = [w \in Watchers |-> [p \in MdPaths |-> NoTimer]]
  /\ coalesced = [w \in Watchers |-> [p \in MdPaths |-> FALSE]]
  /\ owedBursts = [w \in Watchers |-> [p \in MdPaths |-> 0]]
  /\ owedRuns = [w \in Watchers |-> [p \in MdPaths |-> 0]]
  /\ firedOffTime = FALSE
  /\ retainAfterStop = [w \in Watchers |-> FALSE]
  /\ eventContent = [w \in Watchers |-> [p \in MdPaths |-> Blank]]
  /\ survivor = NoSurvivor

\* The timer a handle of watcher w's map stands for.
TimerOf(w, p) == [w |-> w, path |-> p, deadline |-> debounceTimers[w][p]]

\* The scheduled timers of watcher w for path p.
Pending(w, p) == {t \in armed : t.w = w /\ t.path = p}

\* The callbacks of watcher w for path p that are in a phase.
InFlight(w, p, phase) ==
  {c \in BagToSet(callbacks) : c.w = w /\ c.path = p /\ c.phase = phase}

RECURSIVE Copies(_)
\* How many callbacks a set of callback records stands for in the bag.
Copies(cs) ==
  IF cs = {} THEN 0
  ELSE LET c == CHOOSE x \in cs : TRUE IN CopiesIn(c, callbacks) + Copies(cs \ {c})

\* watch(filePath) and watch(dirPath) of start(): the watches that can be
\* established; one that fails (the path does not exist) is only logged.
WatchRoots == {{MemoryMd, "memory"}, {"memory"}, {MemoryMd}}

\* FileWatcher.start() on a new FileWatcher, with the watches that succeed.
StartWatcher(w, roots) ==
  /\ abortController[w] = "null"
  /\ abortController' = [abortController EXCEPT ![w] = "live"]
  /\ watches' = [watches EXCEPT ![w] = roots]
  /\ UNCHANGED << now, file, debounceTimers, armed, callbacks, lastEvent, coalesced,
                  owedBursts, owedRuns, firedOffTime, retainAfterStop, eventContent,
                  survivor >>

\* start() of the FileWatcher the scheduler's specification runs.
Start(w, roots) ==
  /\ StartWatcher(w, roots)
  /\ UNCHANGED << fallbackVars, searchVars, remoteVars, formatVars, textVars, itemVars, cfgVars, getVars, migVars, svcVars, hookVars, recallHookVars >>

\* stop(), lines 47-49: the timers clearTimeout is called on.
StopCleared(w) == {TimerOf(w, p) : p \in MdPaths}

\* FileWatcher.stop(): abort the watches, clear every timer of the map, clear the map.
StopWatcher(w) ==
  /\ abortController[w] # "null"
  /\ abortController' = [abortController EXCEPT ![w] = "aborted"]
  /\ watches' = [watches EXCEPT ![w] = {}]
  /\ armed' = armed \ StopCleared(w)
  /\ debounceTimers' = [debounceTimers EXCEPT ![w] = [p \in MdPaths |-> NoTimer]]
  /\ survivor' = IF survivor.t.w = w THEN NoSurvivor ELSE survivor
  /\ UNCHANGED << now, file, callbacks, lastEvent, coalesced, owedBursts, owedRuns,
                  firedOffTime, retainAfterStop, eventContent >>

\* stop() of the FileWatcher the scheduler's specification runs.
Stop(w) ==
  /\ StopWatcher(w)
  /\ UNCHANGED << fallbackVars, searchVars, remoteVars, formatVars, textVars, itemVars, cfgVars, getVars, migVars, svcVars, hookVars, recallHookVars >>

\* The watchers whose loops call scheduleRetain for an event on p:
\* watchFile reacts to 'change' on MEMORY.md, watchDir to any event on a
\* file of memory/ whose name ends with '.md'.
Receivers(p, type) ==
  { w \in Watchers :
      \/ p = MemoryMd /\ MemoryMd \in watches[w] /\ type = "change"
      \/ InMemoryDir(p) /\ "memory" \in watches[w] /\ EndsWithMd(p) }

\* A scheduleRetain that leaves the existing timer running.
CancelledNothing(w, p) == {}

\* scheduleRetain, lines 83-84: the timers clearTimeout(existing) cancels.
Cancelled(w, p) ==
  IF debounceTimers[w][p] # NoTimer THEN {TimerOf(w, p)} ELSE {}

\* scheduleRetain, lines 86-101: the timer setTimeout creates.
NewTimer(w, p) == [w |-> w, path |-> p, deadline |-> now + DebounceMs]

\* A scheduleRetain that only cancels: the timer it stores is never scheduled.
ScheduledNothing(w, p) == {}

\* scheduleRetain, lines 86-101: the timers it schedules.
Scheduled(w, p) == {NewTimer(w, p)}

\* Whether an event handled now begins a burst: it is the path's first event
\* since its last timer fire (which came retainDebounceMs after the event
\* before), or it comes retainDebounceMs or more after the previous event.
BeginsBurst(w, p) ==
  lastEvent[w][p] = NoTimer \/ now - lastEvent[w][p] >= DebounceMs

\* A file system event on p (a write or a creation leaving content c), delivered to
\* every watcher whose watch covers it; each calls scheduleRetain(p).
FsEvent(p, type, c) ==
  LET R == Receivers(p, type) IN
    /\ file' = IF p \in MdPaths THEN [file EXCEPT ![p] = c] ELSE file
    /\ armed' = (armed \ UNION {Cancelled(w, p) : w \in R})
                  \cup UNION {Scheduled(w, p) : w \in R}
    /\ debounceTimers' = [w \in Watchers |->
         IF w \in R THEN [debounceTimers[w] EXCEPT ![p] = NewTimer(w, p).deadline]
         ELSE debounceTimers[w]]
    /\ lastEvent' = [w \in Watchers |->
         IF w \in R THEN [lastEvent[w] EXCEPT ![p] = now] ELSE lastEvent[w]]
    /\ coalesced' = [w \in Watchers |->
         IF w \in R
         THEN [coalesced[w] EXCEPT ![p] = Pending(w, p) # {}]
         ELSE coalesced[w]]
    /\ owedBursts' = [w \in Watchers |->
         IF w \in R /\ BeginsBurst(w, p)
         THEN [owedBursts[w] EXCEPT ![p] = @ + 1] ELSE owedBursts[w]]
    /\ owedRuns' = [w \in Watchers |->
         IF w \in R /\ Pending(w, p) = {}
         THEN [owedRuns[w] EXCEPT ![p] = @ + 1] ELSE owedRuns[w]]
    /\ eventContent' = [w \in Watchers |->
         IF w \in R THEN [eventContent[w] EXCEPT ![p] = c] ELSE eventContent[w]]
    /\ survivor' = IF survivor.stage = "pending" /\ survivor.t.path = p /\ survivor.t.w \in R
                   THEN NoSurvivor ELSE survivor
    /\ UNCHANGED << now, abortController, watches, callbacks, firedOffTime,
                    retainAfterStop >>
    /\ UNCHANGED << fallbackVars, searchVars, remoteVars, formatVars, textVars, itemVars, cfgVars, getVars, migVars, svcVars, hookVars, recallHookVars >>

\* A timer callback that leaves its entry in the map.
EntryKept(w, p) == debounceTimers[w][p]

\* line 89: debounceTimers.delete(filePath).
EntryDeleted(w, p) == NoTimer

\* A test of the content that takes nothing for blank.
NeverBlank(content) == FALSE

\* The timer callback starts (lines 88-91): delete the map entry, begin readFile.
TimerFire(t) ==
  /\ t \in armed
  /\ t.deadline = now
  /\ armed' = armed \ {t}
  /\ debounceTimers' = [debounceTimers EXCEPT ![t.w][t.path] = EntryDeleted(t.w, t.path)]
  /\ callbacks' = callbacks (+) SetToBag(
       {[w |-> t.w, path |-> t.path, phase |-> "reading", content |-> Blank,
         documentId |-> ""]})
  /\ survivor' = IF survivor.stage = "pending" /\ survivor.t = t
                 THEN [survivor EXCEPT !.stage = "fired"] ELSE survivor
  /\ firedOffTime' = (firedOffTime \/ now # lastEvent[t.w][t.path] + DebounceMs)
  /\ lastEvent' = [lastEvent EXCEPT ![t.w][t.path] = NoTimer]
  /\ owedBursts' = [owedBursts EXCEPT ![t.w][t.path] = @ - 1]
  /\ owedRuns' = [owedRuns EXCEPT ![t.w][t.path] = @ - 1]
  /\ UNCHANGED << now, file, abortController, watches, coalesced, retainAfterStop,
                  eventContent >>
  /\ UNCHANGED << fallbackVars, searchVars, remoteVars, formatVars, textVars, itemVars, cfgVars, getVars, migVars, svcVars, hookVars, recallHookVars >>

\* A catch block that clears the scheduled timers.
CaughtClears(timers) == {}

\* The catch block (lines 97-99) only logs: the scheduled timers stay.
CaughtKeeps(timers) == timers

\* line 92: !content.trim()
IsBlank(content) == Trim(content) = Blank

\* The timer to follow after the callback c failed: the one already followed,
\* or a timer of the same watcher scheduled for another path.
Survivor(c) ==
  IF survivor.stage # "none" THEN survivor
  ELSE IF \E t \in armed : t.w = c.w /\ t.path # c.path
  THEN [t |-> CHOOSE t \in armed : t.w = c.w /\ t.path # c.path, stage |-> "pending"]
  ELSE survivor

\* readFile settles (lines 91-95): a failure (ok is FALSE) is caught and
\* logged, blank content returns, anything else is handed to retainFile.
ReadDone(c, ok) ==
  /\ BagIn(c, callbacks)
  /\ c.phase = "reading"
  /\ IF ~ok \/ IsBlank(file[c.path])
     THEN /\ callbacks' = callbacks (-) SetToBag({c})
          /\ UNCHANGED retainAfterStop
     ELSE /\ callbacks' = (callbacks (-) SetToBag({c})) (+)
               SetToBag({[c EXCEPT !.phase = "retaining", !.content = file[c.path],
                                   !.documentId = Relative(WorkspacePath, FilePath(c.path))]})
          /\ retainAfterStop' = [retainAfterStop EXCEPT
               ![c.w] = @ \/ abortController[c.w] = "aborted"]
  /\ armed' = CaughtKeeps(armed)
  /\ survivor' = IF ~ok THEN Survivor(c)
                 ELSE IF survivor.stage = "fired" /\ survivor.t.w = c.w
                         /\ survivor.t.path = c.path
                 THEN (IF IsBlank(file[c.path]) THEN NoSurvivor
                       ELSE [survivor EXCEPT !.stage = "retained"])
                 ELSE survivor
  /\ UNCHANGED << now, file, abortController, watches, debounceTimers,
                  lastEvent, coalesced, owedBursts, owedRuns, firedOffTime, eventContent >>
  /\ UNCHANGED << fallbackVars, searchVars, remoteVars, formatVars, textVars, itemVars, cfgVars, getVars, migVars, svcVars, hookVars, recallHookVars >>

\* retainFile settles (lines 95-99): success is logged, failure is caught and logged.
RetainDone(c, ok) ==
  /\ BagIn(c, callbacks)
  /\ c.phase = "retaining"
  /\ callbacks' = callbacks (-) SetToBag({c})
  /\ armed' = CaughtKeeps(armed)
  /\ survivor' = IF ~ok THEN Survivor(c)
                 ELSE IF survivor.stage = "retained" /\ survivor.t.w = c.w
                         /\ survivor.t.path = c.path
                 THEN NoSurvivor ELSE survivor
  /\ UNCHANGED << now, file, abortController, watches, debounceTimers,
                  lastEvent, coalesced, owedBursts, owedRuns, firedOffTime,
                  retainAfterStop, eventContent >>
  /\ UNCHANGED << fallbackVars, searchVars, remoteVars, formatVars, textVars, itemVars, cfgVars, getVars, migVars, svcVars, hookVars, recallHookVars >>

\* Time passes, but not past a due timer.
Tick ==
  /\ now < MaxTime
  /\ \A t \in armed : t.deadline > now
  /\ now' = now + 1
  /\ UNCHANGED << file, abortController, watches, debounceTimers, armed, callbacks,
                  lastEvent, coalesced, owedBursts, owedRuns, firedOffTime,
                  retainAfterStop, eventContent, survivor >>
  /\ UNCHANGED << fallbackVars, searchVars, remoteVars, formatVars, textVars, itemVars, cfgVars, getVars, migVars, svcVars, hookVars, recallHookVars >>

\* ------------------------------------------------------ local fallback search
\* A window that is not clamped at the start of the file.
WindowStartUnclamped(i) == i - 2

\* localFallbackSearch, lines 91-92 and 114-115: the window around line i (0-based).
WindowStart(i) == Max(0, i - 2)
WindowEnd(n, i) == Min(n - 1, i + 2)

\* localFallbackSearch, lines 93-98 and 116-121: the result pushed for line i.
Hit(lines, i, path) ==
  [ text |-> Join(Slice(lines, WindowStart(i), WindowEnd(Len(lines), i) + 1), <<"\n">>),
    path |-> path,
    start_line |-> WindowStart(i) + 1,
    end_line |-> WindowEnd(Len(lines), i) + 1 ]

\* localFallbackSearch, lines 90 and 113: whether line i matches the query.
LineMatches(lines, i, queryLower) == Includes(ToLowerCase(lines[i + 1]), queryLower)

RECURSIVE HitsFrom(_, _, _, _)
\* localFallbackSearch, lines 89-100 and 112-123: the loop over the lines from i on.
HitsFrom(lines, i, queryLower, path) ==
  IF i >= Len(lines) THEN << >>
  ELSE (IF LineMatches(lines, i, queryLower) THEN << Hit(lines, i, path) >> ELSE << >>)
         \o HitsFrom(lines, i + 1, queryLower, path)

\* localFallbackSearch, lines 86-101: MEMORY.md, skipped when it cannot be read.
MemoryMdHits(ws, q) ==
  IF ~ws.memoryMd.ok THEN << >>
  ELSE HitsFrom(Split(ws.memoryMd.content, "\n"), 0, ToLowerCase(q), MemoryMd)

RECURSIVE DirHitsUntilFailure(_, _)
\* A loop over memory/ that a file it cannot read ends.
DirHitsUntilFailure(files, q) ==
  IF files = << >> THEN << >>
  ELSE LET f == Head(files) IN
    IF EndsWithMd(f.name) /\ ~f.ok THEN << >>
    ELSE (IF ~EndsWithMd(f.name) THEN << >>
          ELSE HitsFrom(Split(f.content, "\n"), 0, ToLowerCase(q), "memory/" \o f.name))
           \o DirHitsUntilFailure(Tail(files), q)

RECURSIVE DirHits(_, _)
\* localFallbackSearch, lines 107-125: the files of memory/ in readdir's order,
\* skipping the names that do not end with '.md' and the files that cannot be read.
DirHits(files, q) ==
  IF files = << >> THEN << >>
  ELSE LET f == Head(files) IN
    (IF ~EndsWithMd(f.name) \/ ~f.ok THEN << >>
     ELSE HitsFrom(Split(f.content, "\n"), 0, ToLowerCase(q), "memory/" \o f.name))
      \o DirHits(Tail(files), q)

\* localFallbackSearch, lines 104-126: memory/, skipped when readdir fails.
MemoryDirHits(ws, q) == IF ~ws.dirOk THEN << >> ELSE DirHits(ws.files, q)

\* localFallbackSearch, lines 82-126: the results array before the final slice.
Pushed(ws, q) == MemoryMdHits(ws, q) \o MemoryDirHits(ws, q)

\* A search that returns everything it pushed.
UntruncatedSearch(ws, q, k) == Pushed(ws, q)

\* localFallbackSearch, line 128.
LocalFallbackSearch(ws, q, k) == Slice(Pushed(ws, q), 0, k)

\* The lines files are made of, the files of up to n lines, and the queries.
LineSet == {<< >>, <<"a">>, <<"B", "a">>}
RECURSIVE LineSeqs(_)
LineSeqs(n) ==
  IF n = 0 THEN {<< >>}
  ELSE LET shorter == LineSeqs(n - 1) IN
    shorter \cup {Append(ls, l) : ls \in {x \in shorter : Len(x) = n - 1}, l \in LineSet}
FileContents(n) == {Join(ls, <<"\n">>) : ls \in LineSeqs(n) \ {<< >>}}
Queries == {<< >>, <<"A">>, <<"b">>}

Readable(c) == [ok |-> TRUE, content |-> c]
Unreadable == [ok |-> FALSE, content |-> << >>]
DirFile(name, f) == [name |-> name, ok |-> f.ok, content |-> f.content]

\* The workspaces the fallback search is run on: a long MEMORY.md beside a
\* short or missing memory/, and a short or unreadable MEMORY.md beside a
\* memory/ with a long daily note, a file that is not markdown and a note
\* that cannot be read.
FallbackWorkspaces ==
  { [memoryMd |-> Readable(c), dirOk |-> d,
     files |-> << DirFile(DailyName, Readable(<<"a", "\n", "B", "a">>)) >>]
      : c \in FileContents(MaxLines), d \in BOOLEAN }
  \cup
  { [memoryMd |-> m, dirOk |-> TRUE,
     files |-> << DirFile(NotesName, Readable(<<"a">>)), DirFile(OlderName, Unreadable),
                  DirFile(DailyName, Readable(c)) >>]
      : c \in FileContents(MaxLines), m \in {Unreadable, Readable(<<"B", "a">>)} }

FallbackIdle ==
  /\ workspace = [memoryMd |-> Unreadable, dirOk |-> FALSE, files |-> << >>]
  /\ query = << >>
  /\ maxResults = 0
  /\ fpc = "idle"
  /\ pushed = << >>
  /\ fallbackResult = << >>

FallbackInit ==
  /\ workspace \in FallbackWorkspaces
  /\ query \in Queries
  /\ maxResults \in 0..MaxK
  /\ fpc = "call"
  /\ pushed = << >>
  /\ fallbackResult = << >>

\* ------------------------------------------------------- format translation
\* A field that is absent (it prints as "undefined") and one that is null.
Undefined == <<"undefined">>
Null == <<"null">>
Present(v) == v # Undefined /\ v # Null

\* The length of the id prefix formatFact keeps.
IdPrefixLen == 8

IconObservation == "U+1F50D"
IconExperience == "U+1F4AD"
IconDefault == "U+1F4CC"

\* new Date(s).toLocaleDateString(), in the en-US locale and UTC.
ToLocaleDateString(ts) ==
  IF ts = <<"2026-02-22T10:00:00Z">> THEN <<"2/22/2026">> ELSE <<"Invalid Date">>

\* Array.prototype.join(', ') of an array of names.
RECURSIVE JoinNames(_, _)
JoinNames(names, sep) ==
  IF names = << >> THEN << >>
  ELSE IF Len(names) = 1 THEN << names[1] >>
  ELSE << names[1], sep >> \o JoinNames(Tail(names), sep)

\* fact.entities?.length: the entities are a list with an element.
HasEntities(fact) == Present(fact.entities) /\ Len(fact.entities) > 0

\* A value used as a condition: null, undefined and '' are falsy.
Truthy(v) == Present(v) /\ v # << >>

\* A path that is always synthesized.
FactPathSynthetic(fact) ==
  [threw |-> FALSE,
   path |-> <<"hindsight://", fact.type, "/">> \o Slice(fact.id, 0, IdPrefixLen)]

\* An enriched text with the context line before the others.
FactTextContextFirst(fact) ==
  fact.text
    \o (IF Truthy(fact.context) THEN <<"\n  Context: ">> \o fact.context ELSE << >>)
    \o (IF HasEntities(fact)
        THEN <<"\n  Entities: ">> \o JoinNames(fact.entities, ", ") ELSE << >>)
    \o (IF Truthy(fact.occurred_start)
        THEN <<"\n  Date: ">> \o ToLocaleDateString(fact.occurred_start) ELSE << >>)

\* formatFact, lines 140-142: the path, or a TypeError when the id it needs is absent.
FactPath(fact) ==
  IF Truthy(fact.document_id) /\ Includes(fact.document_id, <<"/">>)
  THEN [threw |-> FALSE, path |-> fact.document_id]
  ELSE IF ~Present(fact.id)
  THEN [threw |-> TRUE, path |-> << >>]
  ELSE [threw |-> FALSE,
        path |-> <<"hindsight://", fact.type, "/">> \o Slice(fact.id, 0, IdPrefixLen)]

\* formatFact, lines 145-161: the enriched text.
FactText(fact) ==
  fact.text
    \o (IF HasEntities(fact)
        THEN <<"\n  Entities: ">> \o JoinNames(fact.entities, ", ") ELSE << >>)
    \o (IF Truthy(fact.occurred_start)
        THEN <<"\n  Date: ">> \o ToLocaleDateString(fact.occurred_start) ELSE << >>)
    \o (IF Truthy(fact.context) THEN <<"\n  Context: ">> \o fact.context ELSE << >>)

\* formatFact
FormatFact(fact) ==
  [ threw |-> FactPath(fact).threw,
    text |-> FactText(fact),
    path |-> FactPath(fact).path,
    start_line |-> 0,
    end_line |-> 0 ]

\* formatRecallResponse: results.map(formatFact), which throws when a call does.
FormatRecallResponse(response) ==
  LET each == [i \in 1..Len(response.results) |-> FormatFact(response.results[i])]
  IN [ threw |-> \E i \in 1..Len(each) : each[i].threw,
       results |-> [i \in 1..Len(each) |->
                      [text |-> each[i].text, path |-> each[i].path,
                       start_line |-> each[i].start_line, end_line |-> each[i].end_line]] ]

\* A type tag with an icon of its own for any other type.
TypeTagFourth(type) ==
  IF type = "observation" THEN IconObservation
  ELSE IF type = "experience" THEN IconExperience
  ELSE IF type = "world" THEN IconDefault
  ELSE "U+2753"

\* formatRecallText, line 187.
TypeTag(type) ==
  IF type = "observation" THEN IconObservation
  ELSE IF type = "experience" THEN IconExperience
  ELSE IconDefault

\* formatRecallText, lines 186-196: the line of the fact numbered i.
FactLine(fact, i) ==
  << ToString(i), ". ", TypeTag(fact.type), " " >> \o fact.text
    \o (IF HasEntities(fact)
        THEN <<" [">> \o JoinNames(fact.entities, ", ") \o <<"]">> ELSE << >>)
    \o (IF Truthy(fact.document_id)
        THEN <<"\n   Source: ">> \o fact.document_id ELSE << >>)

RECURSIVE EntityLines(_)
\* formatRecallText, lines 199-206: one line per entity that has observations.
EntityLines(entities) ==
  IF entities = << >> THEN << >>
  ELSE LET e == Head(entities) IN
    (IF Len(e.observations) > 0
     THEN <<"\n**", e.name, "**: ">> \o JoinNames(e.observations, "; ") ELSE << >>)
      \o EntityLines(Tail(entities))

NoMemories == <<"No relevant memories found.">>

\* A formatRecallText that answers an empty response with an empty string.
FormatRecallTextEmpty(response) ==
  IF Len(response.results) = 0 THEN << >>
  ELSE Join([i \in 1..Len(response.results) |-> FactLine(response.results[i], i)],
            <<"\n\n">>)

\* formatRecallText
FormatRecallText(response) ==
  IF Len(response.results) = 0 THEN NoMemories
  ELSE Join([i \in 1..Len(response.results) |-> FactLine(response.results[i], i)],
            <<"\n\n">>)
         \o (IF EntityLines(response.entities) # << >>
             THEN <<"\n\n---\nEntity context:">> \o EntityLines(response.entities)
             ELSE << >>)

\* ------------------------------------------------------------------ recall
\* Response.ok
StatusOk(status) == status >= 200 /\ status <= 299

\* recall, lines 60-62, but keeping one result too many.
LimitResultsOffByOne(results, k) ==
  IF Len(results) > k THEN Slice(results, 0, k + 1) ELSE results

\* recall, lines 60-62: the results limited to maxResults.
LimitResults(results, k) ==
  IF Len(results) > k THEN Slice(results, 0, k) ELSE results

Threw(err) == [threw |-> TRUE, error |-> err, text |-> << >>, results |-> << >>,
               raw |-> << >>]

\* recall(cfg, {query, maxResults}) for a settled fetch.  A body is
\* "notjson" (response.json() rejects), "noresults" (results is absent or
\* null: reading its length is a TypeError), "nonlist" (results is a number,
\* a string or a plain object: results.map is not a function) or "list".
Recall(outcome, k) ==
  IF outcome.kind = "network" THEN Threw(<<"TypeError: fetch failed">>)
  ELSE IF ~StatusOk(outcome.status)
  THEN Threw(<<"Error: Hindsight recall failed: ", ToString(outcome.status)>>)
  ELSE IF outcome.body.kind = "notjson" THEN Threw(<<"SyntaxError">>)
  ELSE IF outcome.body.kind \in {"noresults", "nonlist"} THEN Threw(<<"TypeError">>)
  ELSE LET raw == [results |-> LimitResults(outcome.body.results, k),
                   entities |-> outcome.body.entities]
           formatted == FormatRecallResponse(raw)
       IN IF formatted.threw THEN Threw(<<"TypeError">>)
          ELSE [threw |-> FALSE, error |-> << >>, text |-> FormatRecallText(raw),
                results |-> formatted.results, raw |-> raw.results]

\* One call of localFallbackSearch(workspace, query, maxResults).
FallbackCall ==
  /\ fpc = "call"
  /\ fpc' = "done"
  /\ pushed' = Pushed(workspace, query)
  /\ fallbackResult' = LocalFallbackSearch(workspace, query, maxResults)
  /\ UNCHANGED << workspace, query, maxResults >>
  /\ UNCHANGED << watcherVars, searchVars, remoteVars, formatVars, textVars, itemVars, cfgVars, getVars, migVars, svcVars, hookVars, recallHookVars >>

\* ------------------------------------------------------------ checkHealth
\* The seconds after which checkHealth aborts its request.
HealthTimeout == 3

\* A catch block that lets the error through.
HealthRethrow == [threw |-> TRUE, value |-> FALSE]

\* checkHealth, lines 12-14: the catch block.
HealthCatch == [threw |-> FALSE, value |-> FALSE]

NoOutcome == [kind |-> "none", status |-> 0, at |-> 0]

\* checkHealth, lines 5-9: the timer is set and the GET is sent.
HealthCall ==
  /\ hpc' = "fetching"
  /\ hClock' = 0
  /\ hTimer' = TRUE
  /\ healthRequests' = healthRequests + 1
  /\ UNCHANGED << hResult, hThrew, hOutcome >>

\* checkHealth, lines 10-11: the response arrives; the timer is cleared and
\* res.ok is returned.
HealthResponse(status) ==
  /\ hpc = "fetching"
  /\ hpc' = "done"
  /\ hTimer' = FALSE
  /\ hResult' = StatusOk(status)
  /\ hOutcome' = [kind |-> "response", status |-> status, at |-> hClock]
  /\ UNCHANGED << hClock, hThrew, healthRequests >>
  /\ UNCHANGED << fallbackToLocal, spc, recallCalls, fallbackCalls, recallOutcome,
                  recallResult, sText, sDetails >>
  /\ UNCHANGED << watcherVars, fallbackVars, remoteVars, formatVars, textVars, itemVars, cfgVars, getVars, migVars, svcVars, hookVars, recallHookVars >>

\* The request fails in the network: fetch rejects, the catch block runs; the
\* abort timer stays scheduled.
HealthNetworkError ==
  /\ hpc = "fetching"
  /\ hpc' = "done"
  /\ hResult' = HealthCatch.value
  /\ hThrew' = HealthCatch.threw
  /\ hOutcome' = [kind |-> "network", status |-> 0, at |-> hClock]
  /\ UNCHANGED << hClock, hTimer, healthRequests >>
  /\ UNCHANGED << fallbackToLocal, spc, recallCalls, fallbackCalls, recallOutcome,
                  recallResult, sText, sDetails >>
  /\ UNCHANGED << watcherVars, fallbackVars, remoteVars, formatVars, textVars, itemVars, cfgVars, getVars, migVars, svcVars, hookVars, recallHookVars >>

\* The abort timer fires (line 6): a request still in flight is aborted, fetch
\* rejects and the catch block runs; after the request has ended the abort
\* has no effect.
HealthAbort ==
  /\ hTimer
  /\ hClock = HealthTimeout
  /\ hTimer' = FALSE
  /\ IF hpc = "fetching"
     THEN /\ hpc' = "done"
          /\ hResult' = HealthCatch.value
          /\ hThrew' = HealthCatch.threw
          /\ hOutcome' = [kind |-> "timeout", status |-> 0, at |-> hClock]
     ELSE UNCHANGED << hpc, hResult, hThrew, hOutcome >>
  /\ UNCHANGED << hClock, healthRequests >>
  /\ UNCHANGED << fallbackToLocal, spc, recallCalls, fallbackCalls, recallOutcome,
                  recallResult, sText, sDetails >>
  /\ UNCHANGED << watcherVars, fallbackVars, remoteVars, formatVars, textVars, itemVars, cfgVars, getVars, migVars, svcVars, hookVars, recallHookVars >>

\* A second passes while the abort timer is scheduled, but not past its deadline.
HealthTick ==
  /\ hTimer
  /\ hClock < HealthTimeout
  /\ hClock' = hClock + 1
  /\ UNCHANGED << hpc, hTimer, hResult, hThrew, hOutcome, healthRequests >>
  /\ UNCHANGED << fallbackToLocal, spc, recallCalls, fallbackCalls, recallOutcome,
                  recallResult, sText, sDetails >>
  /\ UNCHANGED << watcherVars, fallbackVars, remoteVars, formatVars, textVars, itemVars, cfgVars, getVars, migVars, svcVars, hookVars, recallHookVars >>

\* ----------------------------------------------------------- memory_search
\* The em dash of the two markers is written "--".
OfflineMarker == "(Hindsight offline -- local fallback)"
ErrorMarker == "(Hindsight error -- local fallback)"
OfflineNoResults == <<"Hindsight is offline. No local results found.">>
Unreachable == <<"Hindsight server is unreachable.">>
SearchFailed == "Memory search failed: "

\* execute, lines 164 and 208: the numbered list of local results.
NumberedResults(results) ==
  Join([i \in 1..Len(results) |->
          << ToString(i), ". " >> \o results[i].text
            \o << "\n   Source: ", results[i].path, "#", ToString(results[i].start_line) >>],
       <<"\n\n">>)

\* An offline route that ignores cfg.fallbackToLocal.
AlwaysOfflineFallback(healthy, fb) == ~healthy

\* execute, line 156: the offline route is taken.
UseOfflineFallback(healthy, fb) == ~healthy /\ fb

\* An error route that never falls back.
NeverErrorFallback(fb) == FALSE

\* execute, line 205: the error route falls back.
UseErrorFallback(fb) == fb

\* execute, lines 158-168: the answer of the offline route.
OfflineAnswer(results) ==
  IF Len(results) = 0 THEN OfflineNoResults
  ELSE << OfflineMarker, "\n\n" >> \o NumberedResults(results)

\* execute, lines 206-213: the answer of the error route with fallback.
ErrorAnswer(results) ==
  << ErrorMarker, "\n\n" >>
    \o (IF Len(results) > 0 THEN NumberedResults(results) ELSE <<"No results found.">>)

\* execute, lines 201-219: the catch block.
Caught(err) ==
  IF UseErrorFallback(fallbackToLocal)
  THEN /\ fallbackCalls' = fallbackCalls + 1
       /\ fallbackResult' = LocalFallbackSearch(workspace, query, maxResults)
       /\ sText' = ErrorAnswer(fallbackResult')
       /\ sDetails' = << >>
  ELSE /\ sText' = << SearchFailed >> \o err
       /\ sDetails' = << >>
       /\ UNCHANGED << fallbackCalls, fallbackResult >>

\* execute is called (lines 147-155): it calls checkHealth.
SearchStart ==
  /\ spc = "start"
  /\ spc' = "health"
  /\ HealthCall
  /\ UNCHANGED << fallbackToLocal, recallCalls, fallbackCalls, recallOutcome,
                  recallResult, sText, sDetails >>
  /\ UNCHANGED << watcherVars, fallbackVars, remoteVars, formatVars, textVars, itemVars, cfgVars, getVars, migVars, svcVars, hookVars, recallHookVars >>

\* checkHealth has settled (lines 155-177): the offline route, the unreachable
\* answer, or the POST of recall.
SearchRoute ==
  /\ spc = "health"
  /\ hpc = "done"
  /\ IF hThrew
     THEN /\ Caught(<<"Error">>)
          /\ spc' = "done"
          /\ UNCHANGED recallCalls
     ELSE IF UseOfflineFallback(hResult, fallbackToLocal)
     THEN /\ fallbackCalls' = fallbackCalls + 1
          /\ fallbackResult' = LocalFallbackSearch(workspace, query, maxResults)
          /\ sText' = OfflineAnswer(fallbackResult')
          /\ sDetails' = << >>
          /\ spc' = "done"
          /\ UNCHANGED recallCalls
     ELSE IF ~hResult
     THEN /\ sText' = Unreachable
          /\ sDetails' = << >>
          /\ spc' = "done"
          /\ UNCHANGED << recallCalls, fallbackCalls, fallbackResult >>
     ELSE /\ recallCalls' = recallCalls + 1
          /\ spc' = "recall"
          /\ UNCHANGED << fallbackCalls, fallbackResult, sText, sDetails >>
  /\ UNCHANGED << fallbackToLocal, hpc, hClock, hTimer, hResult, hThrew, hOutcome,
                  healthRequests, recallOutcome, recallResult >>
  /\ UNCHANGED << workspace, query, maxResults, fpc, pushed >>
  /\ UNCHANGED << watcherVars, remoteVars, formatVars, textVars, itemVars, cfgVars, getVars, migVars, svcVars, hookVars, recallHookVars >>

\* recall has settled (lines 177-220).
RecallSettle(outcome) ==
  /\ spc = "recall"
  /\ spc' = "done"
  /\ recallOutcome' = outcome
  /\ recallResult' = Recall(outcome, maxResults)
  /\ IF recallResult'.threw
     THEN Caught(recallResult'.error)
     ELSE /\ IF Len(recallResult'.results) = 0
             THEN sText' = NoMemories /\ sDetails' = << >>
             ELSE sText' = recallResult'.text /\ sDetails' = recallResult'.results
          /\ UNCHANGED << fallbackCalls, fallbackResult >>
  /\ UNCHANGED << fallbackToLocal, hpc, hClock, hTimer, hResult, hThrew, hOutcome,
                  healthRequests, recallCalls >>
  /\ UNCHANGED << workspace, query, maxResults, fpc, pushed >>
  /\ UNCHANGED << watcherVars, remoteVars, formatVars, textVars, itemVars, cfgVars, getVars, migVars, svcVars, hookVars, recallHookVars >>

\* ------------------------------------------------------- the search's inputs
\* the longest list of results a recall response carries
MaxFacts == 3

LongId == <<"a", "b", "c", "1", "2", "3", "4", "5", "-", "0">>

WorldFact ==
  [ id |-> LongId, text |-> <<"w">>, type |-> "world",
    entities |-> <<"Jared", "Missoula">>, context |-> <<"p">>,
    occurred_start |-> Null, document_id |-> <<"m", "/", "d">> ]
ExperienceFact ==
  [ id |-> <<"e", "1">>, text |-> <<"x">>, type |-> "experience",
    entities |-> Null, context |-> Null,
    occurred_start |-> Null, document_id |-> Null ]
ObservationFact ==
  [ id |-> LongId, text |-> <<"o">>, type |-> "observation",
    entities |-> << >>, context |-> Null,
    occurred_start |-> <<"2026-02-22T10:00:00Z">>, document_id |-> <<"t", "1">> ]

\* Facts that lack a required field: the text; the id, with a document_id
\* that is a path; the id, with no document_id.
FactNoText == [WorldFact EXCEPT !.text = Undefined]
FactNoIdWithPath == [WorldFact EXCEPT !.id = Undefined]
FactNoId == [ExperienceFact EXCEPT !.id = Undefined]

Facts == {WorldFact, ExperienceFact, ObservationFact}
MalformedFacts == {FactNoText, FactNoIdWithPath, FactNoId}

RECURSIVE FactLists(_)
FactLists(n) ==
  IF n = 0 THEN {<< >>}
  ELSE LET shorter == FactLists(n - 1) IN
    shorter \cup {Append(fs, f) : fs \in {x \in shorter : Len(x) = n - 1}, f \in Facts}

JaredEntity == << [name |-> "Jared", observations |-> <<"lives in Missoula", "codes">>] >>

ListBody(results, entities) == [kind |-> "list", results |-> results, entities |-> entities]
OtherBody(kind) == [kind |-> kind, results |-> << >>, entities |-> << >>]

\* The bodies of a response of the recall endpoint: the lists of well-formed
\* facts, lists with a fact that lacks a field, and bodies of another shape.
Bodies ==
  {ListBody(fs, << >>) : fs \in FactLists(MaxFacts)}
  \cup {ListBody(<< WorldFact, ObservationFact >>, JaredEntity)}
  \cup {ListBody(<< f >>, << >>) : f \in MalformedFacts}
  \cup {ListBody(<< WorldFact, f >>, << >>) : f \in MalformedFacts}
  \cup {OtherBody("notjson"), OtherBody("noresults"), OtherBody("nonlist")}

Statuses == {200, 204, 404, 503}

\* How the fetch of recall can end.
RecallOutcomes ==
  {[kind |-> "network", status |-> 0, body |-> OtherBody("none")]}
  \cup {[kind |-> "http", status |-> st, body |-> OtherBody("none")] :
          st \in {x \in Statuses : ~StatusOk(x)}}
  \cup {[kind |-> "http", status |-> 200, body |-> b] : b \in Bodies}

SearchWorkspaces ==
  { [memoryMd |-> Unreadable, dirOk |-> FALSE, files |-> << >>],
    [memoryMd |-> Readable(<<"a", "\n", "B", "a">>), dirOk |-> TRUE,
     files |-> << DirFile(DailyName, Readable(<<"b", "\n", "a">>)) >>] }
SearchQueries == {<<"A">>, <<"b", "b">>}

NoRecallOutcome == [kind |-> "none", status |-> 0, body |-> OtherBody("none")]
NoRecallResult == [threw |-> FALSE, error |-> << >>, text |-> << >>, results |-> << >>,
                   raw |-> << >>]

SearchIdle ==
  /\ fallbackToLocal = TRUE
  /\ spc = "idle"
  /\ hpc = "idle"
  /\ hClock = 0
  /\ hTimer = FALSE
  /\ hResult = FALSE
  /\ hThrew = FALSE
  /\ hOutcome = NoOutcome
  /\ healthRequests = 0
  /\ recallCalls = 0
  /\ fallbackCalls = 0
  /\ recallOutcome = NoRecallOutcome
  /\ recallResult = NoRecallResult
  /\ sText = << >>
  /\ sDetails = << >>

SearchInit ==
  /\ fallbackToLocal \in BOOLEAN
  /\ spc = "start"
  /\ hpc = "idle"
  /\ hClock = 0
  /\ hTimer = FALSE
  /\ hResult = FALSE
  /\ hThrew = FALSE
  /\ hOutcome = NoOutcome
  /\ healthRequests = 0
  /\ recallCalls = 0
  /\ fallbackCalls = 0
  /\ recallOutcome = NoRecallOutcome
  /\ recallResult = NoRecallResult
  /\ sText = << >>
  /\ sDetails = << >>
  /\ workspace \in SearchWorkspaces
  /\ query \in SearchQueries
  /\ maxResults \in 0..MaxK
  /\ fpc = "idle"
  /\ pushed = << >>
  /\ fallbackResult = << >>

\* ------------------------------------------------------ retain and reflect
\* the retain() and reflect() calls of one behaviour
MaxCalls == 2

ConversationId == "conversation/2026-02-22"

\* A path as the segments its patterns are matched on: "MEMORY.md", "memory",
\* "/", a date (four, two and two digits with dashes), ".md" and other text.
DateSegments == {"2026-02-22", "2026-02-21"}
Segments(filePath) ==
  IF filePath = MemoryMd THEN <<"MEMORY.md">>
  ELSE IF filePath = DailyMd THEN <<"memory", "/", "2026-02-22", ".md">>
  ELSE IF \E d \in DateSegments : filePath = "conversation/" \o d
  THEN <<"conversation", "/", CHOOSE d \in DateSegments : filePath = "conversation/" \o d>>
  ELSE IF filePath = "memory/notes.md" THEN <<"memory", "/", "notes", ".md">>
  ELSE << filePath >>

\* retainFile, line 68: the first date found anywhere in the path, or nothing.
PathDate(path) ==
  IF \E i \in 1..Len(path) : path[i] \in DateSegments
  THEN path[CHOOSE i \in 1..Len(path) :
              /\ path[i] \in DateSegments
              /\ \A j \in 1..(i - 1) : path[j] \notin DateSegments]
  ELSE "undefined"

\* retainFile, lines 72-77: includes('MEMORY.md'), else a match of
\* memory/DDDD-DD-DD.md anywhere in the path, else the generic context.
PathContext(path) ==
  IF Includes(path, <<"MEMORY.md">>) THEN "curated long-term memory"
  ELSE IF \E d \in DateSegments : Includes(path, <<"memory", "/", d, ".md">>)
  THEN "daily memory log"
  ELSE "workspace memory file"

\* retainFile, lines 68-69: the date in the file's path, or nothing.
DateIn(filePath) == PathDate(Segments(filePath))
Timestamp(filePath) ==
  IF DateIn(filePath) = "undefined" THEN "undefined" ELSE DateIn(filePath) \o "T00:00:00Z"

\* retainFile, lines 72-77.
Context(filePath) == PathContext(Segments(filePath))

\* retainFile, lines 79-84: the one item it hands to retain.
RetainFileItem(filePath, content) ==
  [ content |-> content, context |-> Context(filePath), documentId |-> filePath,
    timestamp |-> Timestamp(filePath), tags |-> "undefined" ]

\* An item of the request whose document_id depends on the content.
RequestItemPerContent(item) ==
  [ content |-> item.content, context |-> item.context,
    document_id |-> item.documentId \o "@" \o item.content,
    timestamp |-> item.timestamp, tags |-> item.tags ]

\* retain, lines 30-36: the item of the request made of a RetainItem.
RequestItem(item) ==
  [ content |-> item.content, context |-> item.context, document_id |-> item.documentId,
    timestamp |-> item.timestamp, tags |-> item.tags ]

\* retain, lines 23-40: the POST it sends.
RetainRequest(items) ==
  [ method |-> "POST", endpoint |-> "memories",
    items |-> [i \in 1..Len(items) |-> RequestItem(items[i])], async |-> FALSE ]

\* reflect, lines 66-73: the POST it sends.
ReflectRequest ==
  [ method |-> "POST", endpoint |-> "reflect", items |-> << >>, async |-> FALSE ]

StatusText(status) ==
  IF status = 404 THEN "Not Found" ELSE IF status = 503 THEN "Service Unavailable" ELSE "OK"

Failed(err) == [threw |-> TRUE, error |-> err, value |-> << >>]
Returned(value) == [threw |-> FALSE, error |-> << >>, value |-> value]

\* retain, lines 42-56: what it makes of the response.  A response is
\* [kind, status, text (the body as text, or "unreadable"), json].
Retain(outcome, items) ==
  IF outcome.kind = "network" THEN Failed(<<"TypeError: fetch failed">>)
  ELSE IF ~StatusOk(outcome.status)
  THEN Failed(<< "Error: Hindsight retain failed: ", ToString(outcome.status), " ",
                 StatusText(outcome.status), " ",
                 IF outcome.text = "unreadable" THEN "" ELSE outcome.text >>)
  ELSE IF outcome.json.kind = "notjson" THEN Failed(<<"SyntaxError">>)
  ELSE Returned(<< [success |-> outcome.json.success,
                    itemsCount |-> outcome.json.items_count] >>)

\* reflect, lines 75-86.
Reflect(outcome) ==
  IF outcome.kind = "network" THEN Failed(<<"TypeError: fetch failed">>)
  ELSE IF ~StatusOk(outcome.status)
  THEN Failed(<< "Error: Hindsight reflect failed: ", ToString(outcome.status), " ",
                 StatusText(outcome.status) >>)
  ELSE IF outcome.json.kind = "notjson" THEN Failed(<<"SyntaxError">>)
  ELSE Returned(<< [text |-> outcome.json.text,
                    basedOn |-> IF ~outcome.json.based_on THEN << >>
                                ELSE outcome.json.memories] >>)

\* memory_reflect.execute, lines 331-335: the text of a reflection.
ReflectText(result) ==
  << result.text >>
    \o (IF Len(result.basedOn) > 0
        THEN <<"\n\n---\nBased on:\n">>
               \o Join([i \in 1..Len(result.basedOn) |->
                          << "- [", result.basedOn[i].type, "] ", result.basedOn[i].text >>],
                       <<"\n">>)
        ELSE << >>)

\* What the caller makes of the call's end: the scheduler (index.ts 96-98),
\* the agent_end hook (404-406), the retain and reflect commands (490-510)
\* and memory_reflect.execute (328-353).
CallerText(caller, op, result) ==
  IF result.threw
  THEN (IF caller = "scheduler" THEN <<"openclaw-hindsight: retain failed for ">>
        ELSE IF caller = "agent_end" THEN <<"openclaw-hindsight: auto-retain failed: ">>
        ELSE IF op = "retain" THEN <<"Retain failed: ">>
        ELSE <<"Reflect failed: ">>) \o result.error
  ELSE IF op = "reflect"
  THEN (IF caller = "tool" THEN ReflectText(result.value[1]) ELSE << result.value[1].text >>)
  ELSE IF caller = "scheduler" THEN <<"openclaw-hindsight: retained ">>
  ELSE IF caller = "agent_end" THEN <<"openclaw-hindsight: auto-retained">>
  ELSE IF result.value[1].success THEN <<"Retained">> ELSE <<"Failed to retain">>

\* A caller that sends the request again when the call has failed.
ResendOnFailure(sent, result) ==
  IF result.threw THEN Append(sent, sent[Len(sent)]) ELSE sent

\* The callers' catch blocks log or return a text; none sends a request.
OnSettled(sent, result) == sent

\* A registration that does not look at cfg.reflectEnabled.
AlwaysRegistered(enabled) == TRUE

\* index.ts, line 313: memory_reflect is registered when cfg.reflectEnabled.
ReflectRegistered(enabled) == enabled

\* register(): the tools of the plugin.
RegisteredTools(enabled) ==
  {"memory_search", "memory_get"}
    \cup (IF ReflectRegistered(enabled) THEN {"memory_reflect"} ELSE {})

RECURSIVE StubApply(_, _)
\* The stub remote: a retained item replaces the fact set of its document_id.
StubApply(b, items) ==
  IF items = << >> THEN b
  ELSE StubApply({f \in b : f.document_id # Head(items).document_id}
                   \cup {[document_id |-> Head(items).document_id,
                          content |-> Head(items).content]},
                 Tail(items))

RemoteContents == {"v1", "v2"}

\* The items a caller hands to retain: retainFile's one item for the
\* scheduler, the agent_end hook and the retain command, and a list of two
\* items for a direct call.
RetainInputs(caller) ==
  IF caller = "scheduler"
  THEN {<< RetainFileItem(p, c) >> : p \in {MemoryMd, DailyMd}, c \in RemoteContents}
  ELSE IF caller = "agent_end"
  THEN {<< RetainFileItem(ConversationId, c) >> : c \in RemoteContents}
  ELSE IF caller = "cli"
  THEN {<< RetainFileItem(MemoryMd, "v2") >>}
  ELSE {<< RetainFileItem(DailyMd, "v1"), RetainFileItem("memory/notes.md", "v2") >>}
RetainCallers == {"scheduler", "agent_end", "cli", "api"}
ReflectCallers == {"tool", "cli"}

NoJson == [kind |-> "none", success |-> FALSE, items_count |-> 0, text |-> "",
           based_on |-> FALSE, memories |-> << >>]
Response(status, text, json) == [kind |-> "http", status |-> status, text |-> text, json |-> json]
NetworkError == [kind |-> "network", status |-> 0, text |-> "", json |-> NoJson]

\* How the fetch of a retain or reflect call can end.
RemoteOutcomes(op, n) ==
  {NetworkError}
  \cup {Response(st, t, NoJson) : st \in {404, 503}, t \in {"", "bank not found", "unreadable"}}
  \cup {Response(200, "", [NoJson EXCEPT !.kind = "notjson"])}
  \cup (IF op = "retain"
        THEN {Response(200, "", [NoJson EXCEPT !.kind = "json", !.success = ok,
                                                !.items_count = n]) : ok \in BOOLEAN}
        ELSE {Response(200, "", [NoJson EXCEPT !.kind = "json", !.text = "insight"])}
             \cup {Response(200, "", [NoJson EXCEPT !.kind = "json", !.text = "insight",
                                                     !.based_on = TRUE, !.memories = ms])
                     : ms \in {<< >>, << [id |-> "f1", text |-> "w", type |-> "world"] >>}})

AllRemoteOutcomes ==
  UNION {RemoteOutcomes(op, n) : op \in {"retain", "reflect"}, n \in 0..2}

RemoteIdle ==
  /\ reflectEnabled = TRUE
  /\ tools = {}
  /\ rpc = "off"
  /\ rOp = "none"
  /\ rCaller = "none"
  /\ rItems = << >>
  /\ requests = << >>
  /\ started = 0
  /\ rOutcome = NetworkError
  /\ rResult = Returned(<< >>)
  /\ rText = << >>
  /\ bank = {}

RemoteInit ==
  /\ reflectEnabled \in BOOLEAN
  /\ tools = {}
  /\ rpc = "unregistered"
  /\ rOp = "none"
  /\ rCaller = "none"
  /\ rItems = << >>
  /\ requests = << >>
  /\ started = 0
  /\ rOutcome = NetworkError
  /\ rResult = Returned(<< >>)
  /\ rText = << >>
  /\ bank = {}

\* register(api): the tools are registered.
Register ==
  /\ rpc = "unregistered"
  /\ rpc' = "idle"
  /\ tools' = RegisteredTools(reflectEnabled)
  /\ UNCHANGED << reflectEnabled, rOp, rCaller, rItems, requests, started, rOutcome,
                  rResult, rText, bank >>
  /\ UNCHANGED << watcherVars, fallbackVars, searchVars, formatVars, textVars, itemVars, cfgVars, getVars, migVars, svcVars, hookVars, recallHookVars >>

\* retain(cfg, items) is called and sends its POST.
RetainCall(caller, items) ==
  /\ rpc = "idle"
  /\ started < MaxCalls
  /\ rpc' = "posted"
  /\ rOp' = "retain"
  /\ rCaller' = caller
  /\ rItems' = items
  /\ started' = started + 1
  /\ requests' = Append(requests, RetainRequest(items))
  /\ UNCHANGED << reflectEnabled, tools, rOutcome, rResult, rText, bank >>
  /\ UNCHANGED << watcherVars, fallbackVars, searchVars, formatVars, textVars, itemVars, cfgVars, getVars, migVars, svcVars, hookVars, recallHookVars >>

\* reflect(cfg, {query}) is called, by memory_reflect.execute when the tool
\* is registered or by the reflect command, and sends its POST.
ReflectCall(caller) ==
  /\ rpc = "idle"
  /\ started < MaxCalls
  /\ caller = "tool" => "memory_reflect" \in tools
  /\ rpc' = "posted"
  /\ rOp' = "reflect"
  /\ rCaller' = caller
  /\ rItems' = << >>
  /\ started' = started + 1
  /\ requests' = Append(requests, ReflectRequest)
  /\ UNCHANGED << reflectEnabled, tools, rOutcome, rResult, rText, bank >>
  /\ UNCHANGED << watcherVars, fallbackVars, searchVars, formatVars, textVars, itemVars, cfgVars, getVars, migVars, svcVars, hookVars, recallHookVars >>

\* The fetch ends: retain or reflect returns or throws.  The stub remote has
\* stored the items of a retain request it answers with a success status.
RemoteSettle(outcome) ==
  /\ rpc = "posted"
  /\ outcome \in RemoteOutcomes(rOp, Len(rItems))
  /\ rpc' = "settled"
  /\ rOutcome' = outcome
  /\ rResult' = IF rOp = "retain" THEN Retain(outcome, rItems) ELSE Reflect(outcome)
  /\ bank' = IF rOp = "retain" /\ outcome.kind = "http" /\ StatusOk(outcome.status)
             THEN StubApply(bank, requests[Len(requests)].items) ELSE bank
  /\ UNCHANGED << reflectEnabled, tools, rOp, rCaller, rItems, requests, started, rText >>
  /\ UNCHANGED << watcherVars, fallbackVars, searchVars, formatVars, textVars, itemVars, cfgVars, getVars, migVars, svcVars, hookVars, recallHookVars >>

\* The caller's await ends: it logs, prints or returns a text.
CallerSettle ==
  /\ rpc = "settled"
  /\ rpc' = "idle"
  /\ rText' = CallerText(rCaller, rOp, rResult)
  /\ requests' = OnSettled(requests, rResult)
  /\ UNCHANGED << reflectEnabled, tools, rOp, rCaller, rItems, started, rOutcome,
                  rResult, bank >>
  /\ UNCHANGED << watcherVars, fallbackVars, searchVars, formatVars, textVars, itemVars, cfgVars, getVars, migVars, svcVars, hookVars, recallHookVars >>

\* ------------------------------------------------------ retainFile's inputs
MaxSegments == 4

PathSegments == {"MEMORY.md", "memory", "/", ".md", "old-"} \cup DateSegments
FilePaths == UNION {[1..n -> PathSegments] : n \in 1..MaxSegments}

NoItem == [content |-> "", context |-> "", documentId |-> << >>, timestamp |-> ""]

RetainFileIdle ==
  /\ pathIn = <<"MEMORY.md">>
  /\ itemOut = NoItem
  /\ itempc = "idle"

RetainFileInit ==
  /\ pathIn \in FilePaths
  /\ itemOut = NoItem
  /\ itempc = "call"

\* retainFile(cfg, filePath, content) up to the retain call it makes: the
\* one item it hands over.
RetainFileCall ==
  /\ itempc = "call"
  /\ itempc' = "posted"
  /\ itemOut' = [ content |-> "v1", context |-> PathContext(pathIn), documentId |-> pathIn,
                  timestamp |-> IF PathDate(pathIn) = "undefined" THEN "undefined"
                                ELSE PathDate(pathIn) \o "T00:00:00Z" ]
  /\ UNCHANGED pathIn
  /\ UNCHANGED << watcherVars, fallbackVars, searchVars, remoteVars, formatVars, textVars, cfgVars, getVars, migVars, svcVars, hookVars, recallHookVars >>

\* --------------------------------------------------------------- getConfig
\* An environment variable that is not set, a key the config file leaves out.
Unset == "unset"

\* a || b on strings: '' and undefined are falsy.
OrElse(a, b) == IF a \in {Unset, ""} THEN b ELSE a

\* config, lines 16-27: the defaults, computed when the module is loaded.
Defaults(e) ==
  [ baseUrl |-> OrElse(e.HINDSIGHT_URL, "http://localhost:8888"),
    bankId |-> OrElse(e.HINDSIGHT_BANK_ID, "sapphira"),
    retainOnWrite |-> "true",
    fallbackToLocal |-> "true" ]

\* { ...a, ...b }: every key b has replaces a's.
Spread(a, b) == [k \in DOMAIN a |-> IF b[k] = Unset THEN a[k] ELSE b[k]]

\* getConfig, lines 29-31.
GetConfig(e, o) == Spread(Defaults(e), o)

Environments ==
  [ HINDSIGHT_URL : {Unset, "", "http://env:1"},
    HINDSIGHT_BANK_ID : {Unset, "", "env-bank"} ]
ConfigFiles ==
  [ baseUrl : {Unset, "http://file:2"}, bankId : {Unset, "file-bank"},
    retainOnWrite : {Unset, "true", "false"}, fallbackToLocal : {Unset, "false"} ]

NoConfig == [baseUrl |-> "", bankId |-> "", retainOnWrite |-> "", fallbackToLocal |-> ""]

ConfigIdle ==
  /\ env = [HINDSIGHT_URL |-> Unset, HINDSIGHT_BANK_ID |-> Unset]
  /\ overrides = [baseUrl |-> Unset, bankId |-> Unset, retainOnWrite |-> Unset,
                  fallbackToLocal |-> Unset]
  /\ cfgOut = NoConfig
  /\ cfgpc = "idle"

ConfigInit ==
  /\ env \in Environments
  /\ overrides \in ConfigFiles
  /\ cfgOut = NoConfig
  /\ cfgpc = "call"

\* register(api) calls getConfig(api.pluginConfig), index.ts line 117.
GetConfigCall ==
  /\ cfgpc = "call"
  /\ cfgpc' = "done"
  /\ cfgOut' = GetConfig(env, overrides)
  /\ UNCHANGED << env, overrides >>
  /\ UNCHANGED << watcherVars, fallbackVars, searchVars, remoteVars, formatVars, textVars, itemVars, getVars, migVars, svcVars, hookVars, recallHookVars >>

\* -------------------------------------------------------------- memory_get
\* String.prototype.startsWith
HasPrefix(s, prefix) == Len(s) >= Len(prefix) /\ SubSeq(s, 1, Len(prefix)) = prefix

RECURSIVE StripLeadingSlashes(_)
\* line 254: filePath.replace(/^\/+/, '')
StripLeadingSlashes(path) ==
  IF path # << >> /\ Head(path) = "/" THEN StripLeadingSlashes(Tail(path)) ELSE path

\* lines 255-258: the path is, or starts with, an allowed prefix.
IsAllowed(normalizedPath) ==
  \E prefix \in {<<"MEMORY.md">>, <<"memory", "/">>} :
    normalizedPath = prefix \/ HasPrefix(normalizedPath, prefix)

RECURSIVE Walk(_, _)
\* path.join's normalisation: the directory names left after every name of
\* the path has been followed ('' and '.' stay, '..' goes up, not above the root).
Walk(stack, names) ==
  IF names = << >> THEN stack
  ELSE LET name == Head(names) IN
    IF name = << >> \/ name = <<".">> THEN Walk(stack, Tail(names))
    ELSE IF name = <<"..">>
    THEN Walk(IF stack = << >> THEN stack ELSE SubSeq(stack, 1, Len(stack) - 1), Tail(names))
    ELSE Walk(Append(stack, name), Tail(names))

\* The workspace root as the names of its path.
WorkspaceNames == << <<"ws">> >>

\* line 269: join(workspacePath, normalizedPath)
PathJoin(root, path) == Walk(root, Split(path, "/"))

\* line 279: lines ?? 50
DefaultLines == 50

\* lines 271-283: the lines memory_get returns of a file's content.
OutputLines(allLines, from, lines) ==
  IF from = << >> THEN allLines
  ELSE LET startIdx == Max(1, from[1]) - 1
           count == IF lines = << >> THEN DefaultLines ELSE lines[1]
       IN Slice(allLines, startIdx, startIdx + count)

\* readFile was not called.
NoRead == << <<"no read">> >>

\* memory_get.execute, lines 252-306: the path it reads and the text it
\* returns, for a file that exists with the given lines or does not.
MemoryGet(params, exists, allLines) ==
  LET normalizedPath == StripLeadingSlashes(params.path) IN
  IF ~IsAllowed(normalizedPath)
  THEN [ read |-> NoRead,
         text |-> <<"Access denied: memory_get only reads MEMORY.md and memory/*.md files. Got: ">>
                    \o params.path ]
  ELSE LET fullPath == PathJoin(WorkspaceNames, normalizedPath) IN
    IF ~exists
    THEN [ read |-> fullPath,
           text |-> <<"Failed to read ">> \o params.path \o <<": Error: ENOENT">> ]
    ELSE LET text == Join(OutputLines(allLines, params.from, params.lines), <<"\n">>)
         IN [ read |-> fullPath,
              text |-> IF text = << >> THEN <<"(empty file)">> ELSE text ]

\* The paths memory_get is asked for: up to MaxSegments names joined by '/'.
GetNames ==
  {<< >>, <<"..">>, <<"MEMORY.md">>, <<"MEMORY.md", ".bak">>, <<"memory">>, <<"etc">>}
GetPaths == {Join(names, <<"/">>) : names \in UNION {[1..n -> GetNames] : n \in 1..MaxSegments}}
GetParams == [path : GetPaths, from : {<< >>, <<2>>}, lines : {<< >>, <<1>>}]
GetFileLines == << <<"a">>, <<"b">>, <<"c">> >>

GetIdle ==
  /\ getIn = [path |-> <<"MEMORY.md">>, from |-> << >>, lines |-> << >>]
  /\ getRead = NoRead
  /\ getText = << >>
  /\ getpc = "idle"

GetInit ==
  /\ getIn \in GetParams
  /\ getRead = NoRead
  /\ getText = << >>
  /\ getpc = "call"

\* One call of memory_get.execute; the file it reads exists or does not.
GetCall(exists) ==
  /\ getpc = "call"
  /\ getpc' = "done"
  /\ getRead' = MemoryGet(getIn, exists, GetFileLines).read
  /\ getText' = MemoryGet(getIn, exists, GetFileLines).text
  /\ UNCHANGED getIn
  /\ UNCHANGED << watcherVars, fallbackVars, searchVars, remoteVars, formatVars, textVars, itemVars, cfgVars, migVars, svcVars, hookVars, recallHookVars >>

\* -------------------------------------------------------- migration script
\* Array.prototype.sort() of file names: the names in code unit order.
NameOrder == << OlderName, DailyName, NotesName, TopicName >>
IsListed(entries, name) == \E i \in 1..Len(entries) : entries[i].name = name
EntryOf(entries, name) == entries[CHOOSE i \in 1..Len(entries) : entries[i].name = name]
Sort(names) == SelectSeq(NameOrder, LAMBDA n : \E i \in 1..Len(names) : names[i] = n)

\* Array.prototype.reverse()
Reverse(s) == [i \in 1..Len(s) |-> s[Len(s) + 1 - i]]

\* The markdown names of memory/, oldest first.
MdFilesOldestFirst(entries) ==
  Sort(SelectSeq([i \in 1..Len(entries) |-> entries[i].name], EndsWithMd))

\* collectFiles, lines 86-89: filter, sort, reverse.
MdFiles(entries) ==
  Reverse(Sort(SelectSeq([i \in 1..Len(entries) |-> entries[i].name], EndsWithMd)))

\* collectFiles, line 96: the date in the file's name.
NameDate(name) ==
  IF name = DailyName THEN "2026-02-22" ELSE IF name = OlderName THEN "2026-02-21"
  ELSE "undefined"

\* collectFiles, lines 70-80: MEMORY.md, unless it is unreadable or blank.
CollectMemoryMd(ws) ==
  IF ws.memoryMd.ok /\ ~IsBlank(ws.memoryMd.content)
  THEN << [ path |-> MemoryMd, content |-> ws.memoryMd.content,
            context |-> "curated long-term memory", timestamp |-> "undefined" ] >>
  ELSE << >>

RECURSIVE CollectDir(_, _)
\* collectFiles, lines 91-104: the files of mdFiles that can be read and are not blank.
CollectDir(entries, names) ==
  IF names = << >> THEN << >>
  ELSE LET f == EntryOf(entries, Head(names)) IN
    (IF f.ok /\ ~IsBlank(f.content)
     THEN << [ path |-> "memory/" \o f.name, content |-> f.content,
               context |-> "daily memory log",
               timestamp |-> IF NameDate(f.name) = "undefined" THEN "undefined"
                             ELSE NameDate(f.name) \o "T00:00:00Z" ] >>
     ELSE << >>)
      \o CollectDir(entries, Tail(names))

\* collectFiles
CollectFiles(ws) ==
  CollectMemoryMd(ws)
    \o (IF ws.dirOk THEN CollectDir(ws.files, MdFiles(ws.files)) ELSE << >>)

\* main, lines 153-158, and retainItems, lines 49-53: the POST for one file.
MigrateRequest(f) ==
  [ method |-> "POST", endpoint |-> "memories",
    items |-> << [ content |-> f.content, context |-> f.context, document_id |-> f.path,
                   timestamp |-> f.timestamp ] >>,
    async |-> FALSE ]

\* retainItems, lines 55-63: it throws on a failed fetch, a status that is
\* not ok, a body that is not JSON and a body with success false.
RetainItemsThrows(outcome) ==
  \/ outcome.kind = "network"
  \/ ~StatusOk(outcome.status)
  \/ outcome.json.kind = "notjson"
  \/ ~outcome.json.success

\* The workspaces the script is run on.  readdir lists the names of memory/
\* in an order of its own; each file is there or not, with text, blank or
\* unreadable.
MigrateSources == {Unreadable, Readable(<<" ", "\n">>), Readable(<<" ", "b">>)}
Listing(present) ==
  SelectSeq(<< DailyName, TopicName, NotesName, OlderName >>, LAMBDA n : n \in DOMAIN present)
MigrateDirs ==
  UNION { [names -> MigrateSources] : names \in SUBSET {DailyName, OlderName, TopicName} }
MigrateWorkspaces ==
  { [ memoryMd |-> m, dirOk |-> d,
      files |-> [i \in 1..Len(Listing(dir)) |-> DirFile(Listing(dir)[i], dir[Listing(dir)[i]])] ]
      : m \in MigrateSources, d \in BOOLEAN,
        dir \in {x @@ y : x \in MigrateDirs,
                          y \in {<< >>, (NotesName :> Readable(<<" ", "b">>))}} }

MigrateOutcomes ==
  {NetworkError, Response(503, "", NoJson),
   Response(200, "", [NoJson EXCEPT !.kind = "notjson"])}
  \cup {Response(200, "", [NoJson EXCEPT !.kind = "json", !.success = ok, !.items_count = 1])
           : ok \in BOOLEAN}

MigrateIdle ==
  /\ migWorkspace = [memoryMd |-> Unreadable, dirOk |-> FALSE, files |-> << >>]
  /\ dryRun = FALSE
  /\ mpc = "idle"
  /\ migFiles = << >>
  /\ migIndex = 0
  /\ awaiting = FALSE
  /\ posted = << >>
  /\ outcomes = << >>
  /\ succeeded = 0
  /\ failed = 0

MigrateInit ==
  /\ migWorkspace \in MigrateWorkspaces
  /\ dryRun \in BOOLEAN
  /\ mpc = "start"
  /\ migFiles = << >>
  /\ migIndex = 0
  /\ awaiting = FALSE
  /\ posted = << >>
  /\ outcomes = << >>
  /\ succeeded = 0
  /\ failed = 0

\* main, lines 118-142: the health check of a real run (the script exits when
\* the remote cannot be reached), collectFiles, and the end of a dry run.
MigrateStart(reachable) ==
  /\ mpc = "start"
  /\ IF ~dryRun /\ ~reachable
     THEN mpc' = "exited" /\ UNCHANGED migFiles
     ELSE /\ migFiles' = CollectFiles(migWorkspace)
          /\ mpc' = IF dryRun THEN "done" ELSE "loop"
  /\ UNCHANGED << migWorkspace, dryRun, migIndex, awaiting, posted, outcomes, succeeded, failed >>
  /\ UNCHANGED << watcherVars, fallbackVars, searchVars, remoteVars, formatVars, textVars, itemVars, cfgVars, getVars, svcVars, hookVars, recallHookVars >>

\* main, lines 149-158: the loop takes the next file and sends its retain.
MigratePost ==
  /\ mpc = "loop"
  /\ ~awaiting
  /\ migIndex < Len(migFiles)
  /\ posted' = Append(posted, MigrateRequest(migFiles[migIndex + 1]))
  /\ awaiting' = TRUE
  /\ UNCHANGED << migWorkspace, dryRun, mpc, migFiles, migIndex, outcomes, succeeded, failed >>
  /\ UNCHANGED << watcherVars, fallbackVars, searchVars, remoteVars, formatVars, textVars, itemVars, cfgVars, getVars, svcVars, hookVars, recallHookVars >>

\* main, lines 159-165: retainItems returns or throws; the loop goes on.
MigrateSettle(outcome) ==
  /\ mpc = "loop"
  /\ awaiting
  /\ awaiting' = FALSE
  /\ migIndex' = migIndex + 1
  /\ IF RetainItemsThrows(outcome)
     THEN /\ failed' = failed + 1
          /\ outcomes' = Append(outcomes, "failed")
          /\ UNCHANGED succeeded
     ELSE /\ succeeded' = succeeded + 1
          /\ outcomes' = Append(outcomes, "ok")
          /\ UNCHANGED failed
  /\ UNCHANGED << migWorkspace, dryRun, mpc, migFiles, posted >>
  /\ UNCHANGED << watcherVars, fallbackVars, searchVars, remoteVars, formatVars, textVars, itemVars, cfgVars, getVars, svcVars, hookVars, recallHookVars >>

\* main, lines 168-172: the loop is over.
MigrateFinish ==
  /\ mpc = "loop"
  /\ ~awaiting
  /\ migIndex = Len(migFiles)
  /\ mpc' = "done"
  /\ UNCHANGED << migWorkspace, dryRun, migFiles, migIndex, awaiting, posted, outcomes,
                  succeeded, failed >>
  /\ UNCHANGED << watcherVars, fallbackVars, searchVars, remoteVars, formatVars, textVars, itemVars, cfgVars, getVars, svcVars, hookVars, recallHookVars >>

\* ------------------------------------------------- the file watcher service
\* new FileWatcher(...): the next FileWatcher that has not been started.
NewWatcher == CHOOSE w \in Watchers : abortController[w] = "null" /\
                                      \A v \in Watchers : v < w => abortController[v] # "null"

ServiceIdle ==
  /\ fileWatcher = 0
  /\ service = "registered"

\* The service's start (lines 524-530): a new FileWatcher is created, stored
\* in the variable and started.
ServiceStart(roots) ==
  /\ \E w \in Watchers : abortController[w] = "null"
  /\ fileWatcher' = NewWatcher
  /\ service' = "started"
  /\ StartWatcher(NewWatcher, roots)
  /\ UNCHANGED << fallbackVars, searchVars, remoteVars, formatVars, textVars, itemVars, cfgVars, getVars, migVars, hookVars, recallHookVars >>

\* The service's stop (lines 531-534): fileWatcher?.stop().
ServiceStop ==
  /\ fileWatcher # 0
  /\ service' = "stopped"
  /\ StopWatcher(fileWatcher)
  /\ UNCHANGED fileWatcher
  /\ UNCHANGED << fallbackVars, searchVars, remoteVars, formatVars, textVars, itemVars, cfgVars, getVars, migVars, hookVars, recallHookVars >>

\* ---------------------------------------------------------- agent_end hook
\* the agent_end events of one behaviour
MaxTurns == 2
\* a user text is kept when it is longer than this
MinTextLength == 20
\* the user texts that are combined
MaxUserTexts == 5

\* The clock: the instants a turn can end at, with the date in UTC and in
\* the host's time zone.
Instants ==
  << [utc |-> "2026-02-21", local |-> "2026-02-21"],
     [utc |-> "2026-02-22", local |-> "2026-02-21"],
     [utc |-> "2026-02-22", local |-> "2026-02-22"] >>

\* Date.prototype.toISOString: the UTC date, ten characters, then the time.
ToISOString(t) == << t.utc, "T10:00:00.000Z" >>

\* A document named after the date of the host's time zone.
ConversationDocumentLocal(t) == "conversation/" \o t.local

\* lines 401-403: `conversation/${timestamp.slice(0, 10)}`.
ConversationDocument(t) == "conversation/" \o ToISOString(t)[1]

\* A text of n characters.
Text(ch, n) == [i \in 1..n |-> ch]

StringContent(text) == [kind |-> "string", text |-> text, blocks |-> << >>]
ArrayContent(blocks) == [kind |-> "array", text |-> << >>, blocks |-> blocks]
TextBlock(text) == [type |-> "text", hasText |-> TRUE, text |-> text]
ImageBlock == [type |-> "image", hasText |-> FALSE, text |-> << >>]
Message(role, content) == [isObject |-> TRUE, role |-> role, content |-> content]
NullMessage == [isObject |-> FALSE, role |-> "none", content |-> StringContent(<< >>)]

RECURSIVE BlockTexts(_)
\* lines 381-394: the texts pushed for the blocks of an array content.
BlockTexts(blocks) ==
  IF blocks = << >> THEN << >>
  ELSE (IF Head(blocks).type = "text" /\ Head(blocks).hasText
           /\ Len(Head(blocks).text) > MinTextLength
        THEN << Head(blocks).text >> ELSE << >>) \o BlockTexts(Tail(blocks))

RECURSIVE UserTexts(_)
\* lines 372-396: the user texts collected from the messages.
UserTexts(messages) ==
  IF messages = << >> THEN << >>
  ELSE LET msg == Head(messages)
       IN (IF ~msg.isObject \/ msg.role # "user" THEN << >>
           ELSE IF msg.content.kind = "string"
           THEN (IF Len(msg.content.text) > MinTextLength THEN << msg.content.text >> ELSE << >>)
           ELSE IF msg.content.kind = "array" THEN BlockTexts(msg.content.blocks)
           ELSE << >>) \o UserTexts(Tail(messages))

\* lines 366-368 and 398: whether the handler goes on to retain.
Retains(event) ==
  /\ event.success
  /\ event.hasMessages
  /\ Len(event.messages) > 0
  /\ Len(UserTexts(event.messages)) > 0

\* lines 400-403: the request retainFile sends for the event at an instant.
AgentEndRequest(event, t) ==
  RetainRequest(<< RetainFileItem(ConversationDocument(t),
                                  Join(Slice(UserTexts(event.messages), 0, MaxUserTexts),
                                       <<"\n", "\n">>)) >>)

Event(success, messages) == [success |-> success, hasMessages |-> TRUE, messages |-> messages]
LongText(ch) == Text(ch, MinTextLength + 1)

\* The events the host emits: six long user texts; an array content with a
\* long text, an image and a text of exactly MinTextLength characters; a
\* long assistant text beside a short user text; a failed turn; no messages
\* or an empty list; a null message, a long user text and an assistant's
\* blocks; a string content followed by an array content.
AgentEndEvents ==
  { Event(TRUE, [i \in 1..6 |-> Message("user", StringContent(LongText(<<"a", "b", "c", "d", "e", "f">>[i])))]),
    Event(TRUE, << Message("user", ArrayContent(<< TextBlock(LongText("g")), ImageBlock,
                                                   TextBlock(Text("s", MinTextLength)) >>)) >>),
    Event(TRUE, << Message("assistant", StringContent(LongText("a"))),
                   Message("user", StringContent(Text("s", MinTextLength))) >>),
    Event(FALSE, << Message("user", StringContent(LongText("a"))) >>),
    [success |-> TRUE, hasMessages |-> FALSE, messages |-> << >>],
    Event(TRUE, << >>),
    Event(TRUE, << NullMessage, Message("user", StringContent(LongText("h"))),
                   Message("assistant", ArrayContent(<< TextBlock(LongText("a")) >>)) >>),
    Event(TRUE, << Message("user", StringContent(LongText("b"))),
                   Message("user", ArrayContent(<< TextBlock(LongText("c")), TextBlock(LongText("d")) >>)) >>) }

\* How the fetch of a turn's retain can end: no connection, an error status,
\* a body that is not JSON, an answer with success false or true.
AgentEndOutcomes ==
  { NetworkError, Response(503, "", NoJson), Response(200, "", [NoJson EXCEPT !.kind = "notjson"]) }
    \cup {Response(200, "", [NoJson EXCEPT !.kind = "json", !.success = ok, !.items_count = 1])
            : ok \in BOOLEAN}

AgentEndIdle ==
  /\ autoRetain = FALSE
  /\ hookNow = 1
  /\ hookTurns = << >>
  /\ hookAwaiting = {}
  /\ hookAccepted = << >>
  /\ hookBank = {}
  /\ hookLog = << >>

AgentEndInit ==
  /\ autoRetain \in BOOLEAN
  /\ hookNow = 1
  /\ hookTurns = << >>
  /\ hookAwaiting = {}
  /\ hookAccepted = << >>
  /\ hookBank = {}
  /\ hookLog = << >>

\* The clock moves on to the next instant.
TimePasses ==
  /\ hookNow < Len(Instants)
  /\ hookNow' = hookNow + 1
  /\ UNCHANGED << autoRetain, hookTurns, hookAwaiting, hookAccepted, hookBank, hookLog >>
  /\ UNCHANGED << watcherVars, fallbackVars, searchVars, remoteVars, formatVars, textVars, itemVars, cfgVars, getVars, migVars, svcVars, recallHookVars >>

\* The host emits agent_end: the handler, when cfg.autoRetain registered one
\* (line 364), runs up to its await of retainFile, or returns.
AgentEnd(event) ==
  /\ Len(hookTurns) < MaxTurns
  /\ LET sends == autoRetain /\ Retains(event)
     IN /\ hookTurns' = Append(hookTurns,
                               [ event |-> event, instant |-> Instants[hookNow], sent |-> sends,
                                 request |-> IF sends THEN AgentEndRequest(event, Instants[hookNow])
                                             ELSE RetainRequest(<< >>) ])
        /\ hookAwaiting' = IF sends THEN hookAwaiting \cup {Len(hookTurns) + 1} ELSE hookAwaiting
  /\ UNCHANGED << autoRetain, hookNow, hookAccepted, hookBank, hookLog >>
  /\ UNCHANGED << watcherVars, fallbackVars, searchVars, remoteVars, formatVars, textVars, itemVars, cfgVars, getVars, migVars, svcVars, recallHookVars >>

\* The fetch of a turn's retain ends: the stub remote has stored the item of
\* a request it answers with a success status, retain returns or throws and
\* the handler logs (lines 404-406).
AgentEndSettle(i, outcome) ==
  /\ i \in hookAwaiting
  /\ hookAwaiting' = hookAwaiting \ {i}
  /\ LET stored == outcome.kind = "http" /\ StatusOk(outcome.status)
     IN /\ hookBank' = IF stored THEN StubApply(hookBank, hookTurns[i].request.items) ELSE hookBank
        /\ hookAccepted' = IF stored THEN Append(hookAccepted, i) ELSE hookAccepted
  /\ hookLog' = CallerText("agent_end", "retain", Retain(outcome, hookTurns[i].request.items))
  /\ UNCHANGED << autoRetain, hookNow, hookTurns >>
  /\ UNCHANGED << watcherVars, fallbackVars, searchVars, remoteVars, formatVars, textVars, itemVars, cfgVars, getVars, migVars, svcVars, recallHookVars >>

\* ------------------------------------------------- before_agent_start hook
\* a prompt shorter than this is not looked up
MinPromptLength == 10
\* the maxResults of the hook's recall
AutoRecallMax == 3

\* line 414: the prompts the handler returns for at once.
SkipsPrompt(prompt) ==
  prompt = Undefined \/ Len(prompt) = 0 \/ Len(prompt) < MinPromptLength

\* A handler that injects whatever recall returned.
InjectsAlways(result) == TRUE

\* line 426: a recall with results is injected.
Injects(result) == Len(result.results) # 0

\* lines 432-434: the context returned.
PrependContext(text) == <<"<relevant-memories>\n">> \o text \o <<"\n</relevant-memories>">>

\* lines 435-437: the catch block logs the error.
AutoRecallCatch(err) ==
  [threw |-> FALSE, log |-> <<"openclaw-hindsight: auto-recall failed: ">> \o err]

\* The prompts of the event: none, empty, one character short of
\* MinPromptLength, exactly as long and longer.
Prompts ==
  { Undefined, << >>, Text("p", MinPromptLength - 1), Text("p", MinPromptLength),
    Text("q", MinPromptLength + 1) }

\* How the fetch of the hook's recall can end: as for the search, or with a
\* list of more facts than AutoRecallMax.
AutoRecallOutcomes ==
  RecallOutcomes
    \cup {[kind |-> "http", status |-> 200, body |-> ListBody(fs, JaredEntity)] :
            fs \in { << WorldFact, ExperienceFact, ObservationFact, WorldFact >>,
                     << ExperienceFact, ExperienceFact, WorldFact, WorldFact, ObservationFact >> }}

AutoRecallIdle ==
  /\ autoRecall = FALSE
  /\ bpc = "idle"
  /\ bPrompt = Undefined
  /\ bReturn = Undefined
  /\ bThrew = FALSE
  /\ bLog = << >>

AutoRecallInit ==
  /\ autoRecall \in BOOLEAN
  /\ bpc = "start"
  /\ bPrompt = Undefined
  /\ bReturn = Undefined
  /\ bThrew = FALSE
  /\ bLog = << >>

\* The host emits before_agent_start: the handler, when cfg.autoRecall
\* registered one (line 412), returns for a short prompt or calls checkHealth.
BeforeAgentStart(prompt) ==
  /\ bpc = "start"
  /\ bPrompt' = prompt
  /\ IF ~autoRecall \/ SkipsPrompt(prompt)
     THEN /\ bpc' = "done"
          /\ UNCHANGED << hpc, hClock, hTimer, healthRequests, hResult, hThrew, hOutcome >>
     ELSE /\ bpc' = "health"
          /\ HealthCall
  /\ UNCHANGED << autoRecall, bReturn, bThrew, bLog >>
  /\ UNCHANGED << fallbackToLocal, spc, recallCalls, fallbackCalls, recallOutcome,
                  recallResult, sText, sDetails >>
  /\ UNCHANGED << watcherVars, fallbackVars, remoteVars, formatVars, textVars, itemVars, cfgVars, getVars, migVars, svcVars, hookVars >>

\* checkHealth has settled (lines 417-424): the handler returns, or calls recall.
AutoRecallRoute ==
  /\ bpc = "health"
  /\ hpc = "done"
  /\ IF hThrew
     THEN /\ bpc' = "done"
          /\ bThrew' = AutoRecallCatch(<<"Error">>).threw
          /\ bLog' = AutoRecallCatch(<<"Error">>).log
          /\ UNCHANGED recallCalls
     ELSE IF ~hResult
     THEN /\ bpc' = "done"
          /\ UNCHANGED << recallCalls, bThrew, bLog >>
     ELSE /\ bpc' = "recall"
          /\ recallCalls' = recallCalls + 1
          /\ UNCHANGED << bThrew, bLog >>
  /\ UNCHANGED << autoRecall, bPrompt, bReturn >>
  /\ UNCHANGED << fallbackToLocal, spc, hpc, hClock, hTimer, hResult, hThrew, hOutcome,
                  healthRequests, fallbackCalls, recallOutcome, recallResult, sText, sDetails >>
  /\ UNCHANGED << watcherVars, fallbackVars, remoteVars, formatVars, textVars, itemVars, cfgVars, getVars, migVars, svcVars, hookVars >>

\* recall has settled (lines 420-437): the handler returns the memories, or
\* nothing.
AutoRecallSettle(outcome) ==
  /\ bpc = "recall"
  /\ bpc' = "done"
  /\ recallOutcome' = outcome
  /\ recallResult' = Recall(outcome, AutoRecallMax)
  /\ IF recallResult'.threw
     THEN /\ bThrew' = AutoRecallCatch(recallResult'.error).threw
          /\ bLog' = AutoRecallCatch(recallResult'.error).log
          /\ UNCHANGED bReturn
     ELSE IF ~Injects(recallResult')
     THEN UNCHANGED << bReturn, bThrew, bLog >>
     ELSE /\ bLog' = << "openclaw-hindsight: injecting ", ToString(Len(recallResult'.results)),
                        " memories into context" >>
          /\ bReturn' = PrependContext(recallResult'.text)
          /\ UNCHANGED bThrew
  /\ UNCHANGED << autoRecall, bPrompt >>
  /\ UNCHANGED << fallbackToLocal, spc, hpc, hClock, hTimer, hResult, hThrew, hOutcome,
                  healthRequests, recallCalls, fallbackCalls, sText, sDetails >>
  /\ UNCHANGED << watcherVars, fallbackVars, remoteVars, formatVars, textVars, itemVars, cfgVars, getVars, migVars, svcVars, hookVars >>

\* -------------------------------------------------------------- formatFact
\* The facts formatFact is called with: ids shorter than, as long as and longer
\* than the prefix kept; a document_id that is absent, null, empty, a plain
\* id, a path or a lone separator; entities, occurred_start and context
\* absent, null, empty or set.
FormatIds == {<<"e", "1">>, SubSeq(LongId, 1, IdPrefixLen), LongId}
FormatDocumentIds == {Undefined, Null, << >>, <<"t", "1">>, <<"m", "/", "d">>, <<"/">>}
FormatEntities == {Undefined, Null, << >>, <<"Jared">>, <<"Jared", "Missoula">>}
FormatDates == {Undefined, Null, << >>, <<"2026-02-22T10:00:00Z">>, <<"soon">>}
FormatContexts == {Undefined, Null, << >>, <<"p">>}
FormatTexts == {<<"w">>, <<"a", "\n", "b">>}
FormatFacts ==
  [ id : FormatIds, text : FormatTexts, type : {"world", "experience", "observation"},
    entities : FormatEntities, context : FormatContexts,
    occurred_start : FormatDates, document_id : FormatDocumentIds ]

NotFormatted == [threw |-> FALSE, text |-> << >>, path |-> << >>, start_line |-> 0,
                 end_line |-> 0]

FormatIdle ==
  /\ factIn = WorldFact
  /\ factOut = NotFormatted
  /\ fmtpc = "idle"

FormatInit ==
  /\ factIn \in FormatFacts
  /\ factOut = NotFormatted
  /\ fmtpc = "call"

\* One call of formatFact(fact).
FormatCall ==
  /\ fmtpc = "call"
  /\ fmtpc' = "done"
  /\ factOut' = FormatFact(factIn)
  /\ UNCHANGED factIn
  /\ UNCHANGED << watcherVars, fallbackVars, searchVars, remoteVars, textVars, itemVars, cfgVars, getVars, migVars, svcVars, hookVars, recallHookVars >>

\* ------------------------------------------------ formatRecallText's inputs
MaxRendered == 2

\* The facts formatRecallText is given: the three categories and a type
\* outside them, entities null or listed, document_id null or set.
TextTypes == {"world", "experience", "observation", "opinion"}
TextFacts ==
  [ id : {<<"1">>}, text : {<<"f">>, <<"g">>}, type : TextTypes,
    entities : {Null, <<"Alice">>}, context : {Null}, occurred_start : {Null},
    document_id : {Null, <<"test">>} ]

TextResults == UNION {[1..n -> TextFacts] : n \in 0..MaxRendered}

\* response.entities: null (no entries), or one entity with observations.
TextEntities == {<< >>, JaredEntity}

TextResponses == [results : TextResults, entities : TextEntities]

TextIdle ==
  /\ textIn = [results |-> << >>, entities |-> << >>]
  /\ textOut = << >>
  /\ textpc = "idle"

TextInit ==
  /\ textIn \in TextResponses
  /\ textOut = << >>
  /\ textpc = "call"

\* One call of formatRecallText(response).
TextCall ==
  /\ textpc = "call"
  /\ textpc' = "done"
  /\ textOut' = FormatRecallText(textIn)
  /\ UNCHANGED textIn
  /\ UNCHANGED << watcherVars, fallbackVars, searchVars, remoteVars, formatVars, itemVars, cfgVars, getVars, migVars, svcVars, hookVars, recallHookVars >>

\* --------------------------------------------------------- specifications
Init == WatcherInit /\ FallbackIdle /\ SearchIdle /\ RemoteIdle /\ FormatIdle /\ TextIdle /\ RetainFileIdle /\ ConfigIdle /\ GetIdle /\ MigrateIdle /\ ServiceIdle /\ AgentEndIdle /\ AutoRecallIdle

Next ==
  \/ \E roots \in WatchRoots : Start(Scheduler, roots)
  \/ Stop(Scheduler)
  \/ \E p \in Paths, type \in EventTypes, c \in Contents : FsEvent(p, type, c)
  \/ \E t \in armed : TimerFire(t)
  \/ \E c \in BagToSet(callbacks), ok \in BOOLEAN : ReadDone(c, ok)
  \/ \E c \in BagToSet(callbacks), ok \in BOOLEAN : RetainDone(c, ok)
  \/ Tick

Spec == Init /\ [][Next]_vars

FallbackSpecInit == WatcherInit /\ FallbackInit /\ SearchIdle /\ RemoteIdle /\ FormatIdle /\ TextIdle /\ RetainFileIdle /\ ConfigIdle /\ GetIdle /\ MigrateIdle /\ ServiceIdle /\ AgentEndIdle /\ AutoRecallIdle
FallbackNext == FallbackCall
SpecFallback == FallbackSpecInit /\ [][FallbackNext]_vars

SearchSpecInit == WatcherInit /\ SearchInit /\ RemoteIdle /\ FormatIdle /\ TextIdle /\ RetainFileIdle /\ ConfigIdle /\ GetIdle /\ MigrateIdle /\ ServiceIdle /\ AgentEndIdle /\ AutoRecallIdle
SearchNext ==
  \/ SearchStart
  \/ \E status \in Statuses : HealthResponse(status)
  \/ HealthNetworkError
  \/ HealthAbort
  \/ HealthTick
  \/ SearchRoute
  \/ \E outcome \in RecallOutcomes : RecallSettle(outcome)
SpecSearch == SearchSpecInit /\ [][SearchNext]_vars

RemoteSpecInit == WatcherInit /\ FallbackIdle /\ SearchIdle /\ RemoteInit /\ FormatIdle /\ TextIdle /\ RetainFileIdle /\ ConfigIdle /\ GetIdle /\ MigrateIdle /\ ServiceIdle /\ AgentEndIdle /\ AutoRecallIdle
RemoteNext ==
  \/ Register
  \/ \E caller \in RetainCallers : \E items \in RetainInputs(caller) : RetainCall(caller, items)
  \/ \E caller \in ReflectCallers : ReflectCall(caller)
  \/ \E outcome \in AllRemoteOutcomes : RemoteSettle(outcome)
  \/ CallerSettle
SpecRemote == RemoteSpecInit /\ [][RemoteNext]_vars

FormatSpecInit == WatcherInit /\ FallbackIdle /\ SearchIdle /\ RemoteIdle /\ FormatInit /\ TextIdle /\ RetainFileIdle /\ ConfigIdle /\ GetIdle /\ MigrateIdle /\ ServiceIdle /\ AgentEndIdle /\ AutoRecallIdle
FormatNext == FormatCall
SpecFormat == FormatSpecInit /\ [][FormatNext]_vars

TextSpecInit == WatcherInit /\ FallbackIdle /\ SearchIdle /\ RemoteIdle /\ FormatIdle /\ TextInit /\ RetainFileIdle /\ ConfigIdle /\ GetIdle /\ MigrateIdle /\ ServiceIdle /\ AgentEndIdle /\ AutoRecallIdle
TextNext == TextCall
SpecText == TextSpecInit /\ [][TextNext]_vars

RetainFileSpecInit == WatcherInit /\ FallbackIdle /\ SearchIdle /\ RemoteIdle /\ FormatIdle /\ TextIdle /\ RetainFileInit /\ ConfigIdle /\ GetIdle /\ MigrateIdle /\ ServiceIdle /\ AgentEndIdle /\ AutoRecallIdle
RetainFileNext == RetainFileCall
SpecRetainFile == RetainFileSpecInit /\ [][RetainFileNext]_vars

ConfigSpecInit == WatcherInit /\ FallbackIdle /\ SearchIdle /\ RemoteIdle /\ FormatIdle /\ TextIdle /\ RetainFileIdle /\ ConfigInit /\ GetIdle /\ MigrateIdle /\ ServiceIdle /\ AgentEndIdle /\ AutoRecallIdle
ConfigNext == GetConfigCall
SpecConfig == ConfigSpecInit /\ [][ConfigNext]_vars

GetSpecInit == WatcherInit /\ FallbackIdle /\ SearchIdle /\ RemoteIdle /\ FormatIdle /\ TextIdle /\ RetainFileIdle /\ ConfigIdle /\ GetInit /\ MigrateIdle /\ ServiceIdle /\ AgentEndIdle /\ AutoRecallIdle
GetNext == \E exists \in BOOLEAN : GetCall(exists)
SpecGet == GetSpecInit /\ [][GetNext]_vars

MigrateSpecInit == WatcherInit /\ FallbackIdle /\ SearchIdle /\ RemoteIdle /\ FormatIdle /\ TextIdle /\ RetainFileIdle /\ ConfigIdle /\ GetIdle /\ MigrateInit /\ ServiceIdle /\ AgentEndIdle /\ AutoRecallIdle
MigrateNext ==
  \/ \E reachable \in BOOLEAN : MigrateStart(reachable)
  \/ MigratePost
  \/ \E outcome \in MigrateOutcomes : MigrateSettle(outcome)
  \/ MigrateFinish
SpecMigrate == MigrateSpecInit /\ [][MigrateNext]_vars

\* The file watcher while stop() is not called and every readFile resolves;
\* the change events come early enough for their timers to fall due by MaxTime.
ChangeEvent(p, type, c) ==
  /\ now + DebounceMs <= MaxTime
  /\ FsEvent(p, type, c)

LiveNext ==
  \/ \E roots \in WatchRoots : Start(Scheduler, roots)
  \/ \E p \in Paths, type \in EventTypes, c \in Contents : ChangeEvent(p, type, c)
  \/ \E t \in armed : TimerFire(t)
  \/ \E c \in BagToSet(callbacks) : ReadDone(c, TRUE)
  \/ \E c \in BagToSet(callbacks), ok \in BOOLEAN : RetainDone(c, ok)
  \/ Tick

\* Time passes, due timers run their callbacks, reads and retains settle.
Fairness ==
  /\ WF_vars(Tick)
  /\ WF_vars(\E t \in armed : TimerFire(t))
  /\ WF_vars(\E c \in BagToSet(callbacks) : ReadDone(c, TRUE))
  /\ WF_vars(\E c \in BagToSet(callbacks), ok \in BOOLEAN : RetainDone(c, ok))

SpecLive == Init /\ [][LiveNext]_vars /\ Fairness

\* The service under a host that starts and stops it in any order, while
\* MEMORY.md is written.
ServiceNext ==
  \/ \E roots \in {{MemoryMd, "memory"}} : ServiceStart(roots)
  \/ ServiceStop
  \/ FsEvent(MemoryMd, "change", <<" ", "b">>)
  \/ \E t \in armed : TimerFire(t)
  \/ \E c \in BagToSet(callbacks) : ReadDone(c, TRUE)
  \/ \E c \in BagToSet(callbacks) : RetainDone(c, TRUE)
  \/ Tick
SpecService == Init /\ [][ServiceNext]_vars

\* The agent_end hook: turns end, on one date or the next, and the retains
\* they start settle in any order.
AgentEndSpecInit == WatcherInit /\ FallbackIdle /\ SearchIdle /\ RemoteIdle /\ FormatIdle /\ TextIdle /\ RetainFileIdle /\ ConfigIdle /\ GetIdle /\ MigrateIdle /\ ServiceIdle /\ AgentEndInit /\ AutoRecallIdle
AgentEndNext ==
  \/ \E event \in AgentEndEvents : AgentEnd(event)
  \/ \E i \in 1..MaxTurns, outcome \in AgentEndOutcomes : AgentEndSettle(i, outcome)
  \/ TimePasses
SpecAgentEnd == AgentEndSpecInit /\ [][AgentEndNext]_vars

\* The before_agent_start hook: one event, the health probe and the recall
\* ending in any way.
AutoRecallSpecInit == WatcherInit /\ FallbackIdle /\ SearchIdle /\ RemoteIdle /\ FormatIdle /\ TextIdle /\ RetainFileIdle /\ ConfigIdle /\ GetIdle /\ MigrateIdle /\ ServiceIdle /\ AgentEndIdle /\ AutoRecallInit
AutoRecallNext ==
  \/ \E prompt \in Prompts : BeforeAgentStart(prompt)
  \/ \E status \in Statuses : HealthResponse(status)
  \/ HealthNetworkError
  \/ HealthAbort
  \/ HealthTick
  \/ AutoRecallRoute
  \/ \E outcome \in AutoRecallOutcomes : AutoRecallSettle(outcome)
SpecAutoRecall == AutoRecallSpecInit /\ [][AutoRecallNext]_vars

\* ---------------------------------------------------------------- C1
\* C1 as stated: every burst of change events on one path, each less than
\* retainDebounceMs after the previous one, leads to exactly one timer fire,
\* retainDebounceMs after the burst's last event; events on another path
\* never cancel, reset or replace the timer.  In states: while the watcher
\* runs, the bursts begun and not yet fired for a path are exactly its
\* scheduled timers (none or one), a scheduled timer is due retainDebounceMs
\* after the path's last event, and every callback ran at that time.
C1_BurstFiresOnce ==
  \A w \in Watchers : \A p \in MdPaths :
    /\ abortController[w] = "live" => owedBursts[w][p] = Cardinality(Pending(w, p))
    /\ Cardinality(Pending(w, p)) <= 1
    /\ \A t \in Pending(w, p) : t.deadline = lastEvent[w][p] + DebounceMs
    /\ ~firedOffTime

\* C1 as amended: the events of a burst are those handled while the timer of
\* the previous one is still scheduled (every gap below retainDebounceMs, and
\* a gap of exactly retainDebounceMs when the event is handled before the due
\* callback); such a burst leads to exactly one timer fire, retainDebounceMs
\* after its last event, and events on other paths leave the timer alone.
C1_RunFiresOnce ==
  \A w \in Watchers : \A p \in MdPaths :
    /\ abortController[w] = "live" => owedRuns[w][p] = Cardinality(Pending(w, p))
    /\ Cardinality(Pending(w, p)) <= 1
    /\ \A t \in Pending(w, p) : t.deadline = lastEvent[w][p] + DebounceMs
    /\ ~firedOffTime

\* A burst of two or more events on MEMORY.md has just fired once, and an event
\* on the daily note arrived after the burst's last event and before the fire.
C1_Witness ==
  \E c \in BagToSet(callbacks) :
    /\ c.path = MemoryMd
    /\ c.phase = "reading"
    /\ coalesced[c.w][MemoryMd]
    /\ Pending(c.w, MemoryMd) = {}
    /\ lastEvent[c.w][MemoryMd] = NoTimer
    /\ abortController[c.w] = "live"
    /\ owedRuns[c.w][MemoryMd] = 0
    /\ \E t \in Pending(c.w, DailyMd) : t.deadline > now /\ t.deadline < now + DebounceMs

\* ---------------------------------------------------------------- C2
\* C2: once stop() has been called the watcher calls retainFile no more, and
\* none of its timers remains scheduled.
C2_NoRetainAfterStop ==
  \A w \in Watchers :
    /\ ~retainAfterStop[w]
    /\ abortController[w] = "aborted" => \A p \in MdPaths : Pending(w, p) = {}

\* ---------------------------------------------------------------- C3
\* C3: no two debounced retains of one path are in flight at the same time.
C3_RetainsSerialized ==
  \A w \in Watchers : \A p \in MdPaths : Copies(InFlight(w, p, "retaining")) <= 1

\* --------------------------------------------------------------- C10
\* The 0-based indices of the lines that contain the query, letter case
\* aside, in ascending order.
RECURSIVE MatchingLines(_, _, _)
MatchingLines(lines, q, i) ==
  IF i >= Len(lines) THEN << >>
  ELSE (IF \E k \in 1..(Len(lines[i + 1]) - Len(q) + 1) :
             \A j \in 1..Len(q) : Lower(lines[i + 1][k + j - 1]) = Lower(q[j])
        THEN << i >> ELSE << >>) \o MatchingLines(lines, q, i + 1)

\* The results pushed with a path, in the order pushed.
PushedFor(path) == SelectSeq(pushed, LAMBDA r : r.path = path)

\* For a readable file: one result per matching line, in line order, each the
\* window of at most two lines on either side, with 1-based bounds.
WindowsOf(content, path) ==
  LET lines == Split(content, "\n")
      n == Len(lines)
      idx == MatchingLines(lines, query, 0)
      got == PushedFor(path)
  IN /\ Len(got) = Len(idx)
     /\ \A j \in 1..Len(idx) :
          LET i == idx[j]
              lo == IF i - 2 > 0 THEN i - 2 ELSE 0
              hi == IF i + 2 < n - 1 THEN i + 2 ELSE n - 1
          IN /\ got[j].text = Join(SubSeq(lines, lo + 1, hi + 1), <<"\n">>)
             /\ got[j].start_line = lo + 1
             /\ got[j].end_line = hi + 1
             /\ 1 <= got[j].start_line
             /\ got[j].start_line <= i + 1
             /\ i + 1 <= got[j].end_line
             /\ got[j].end_line <= n
             /\ got[j].end_line - got[j].start_line <= 4

\* C10: for every line i of a file of N lines that matches the query, letter
\* case aside, localFallbackSearch emits one result: the lines max(0,i-2) to
\* min(N-1,i+2) joined, start_line = max(0,i-2)+1, end_line = min(N-1,i+2)+1.
C10_Windowing ==
  fpc = "done" =>
    /\ workspace.memoryMd.ok => WindowsOf(workspace.memoryMd.content, MemoryMd)
    /\ workspace.dirOk =>
         \A k \in 1..Len(workspace.files) :
           LET f == workspace.files[k] IN
             (f.ok /\ EndsWithMd(f.name)) => WindowsOf(f.content, "memory/" \o f.name)

\* A search has emitted a full window of five lines, a window clamped at the
\* start of the file (a match on line 1 of three lines or more) and a window
\* clamped at the end of the file.
C10_Witness ==
  /\ fpc = "done"
  /\ \E j \in 1..Len(pushed) : pushed[j].end_line - pushed[j].start_line = 4
  /\ \E j \in 1..Len(pushed) : pushed[j].start_line = 1 /\ pushed[j].end_line = 3
  /\ \E j \in 1..Len(pushed) :
       /\ pushed[j].path = MemoryMd
       /\ pushed[j].end_line = Len(Split(workspace.memoryMd.content, "\n"))
       /\ pushed[j].end_line - pushed[j].start_line = 2
       /\ pushed[j].start_line > 1

\* ------------------------------------------------------ memory_search claims
SearchDone == spc = "done"
ProbeFalse == hpc = "done" /\ ~hThrew /\ ~hResult
ProbeTrue == hpc = "done" /\ ~hThrew /\ hResult
LocalAnswer == LocalFallbackSearch(workspace, query, maxResults)
StartsWith(text, marker) == Len(text) > 0 /\ Head(text) = marker

\* C4: whenever the health probe returns false and fallbackToLocal is true, the
\* recall endpoint is never called, the answer's content is exactly what
\* localFallbackSearch(workspace, query, maxResults) returns, and the returned
\* text starts with the offline marker, for an empty fallback result too.
C4_OfflineRouting ==
  (SearchDone /\ ProbeFalse /\ fallbackToLocal) =>
    /\ recallCalls = 0
    /\ fallbackCalls = 1
    /\ fallbackResult = LocalAnswer
    /\ StartsWith(sText, OfflineMarker)
    /\ Len(LocalAnswer) > 0 =>
         sText = << OfflineMarker, "\n\n" >> \o NumberedResults(LocalAnswer)

\* How the fetch of recall ended, by the cases of a failure.
RecallRejected == recallOutcome.kind = "http" /\ ~StatusOk(recallOutcome.status)
RecallTransportError == recallOutcome.kind = "network"
RecallUnprocessable ==
  /\ recallOutcome.kind = "http"
  /\ StatusOk(recallOutcome.status)
  /\ recallOutcome.body.kind \in {"notjson", "noresults", "nonlist"}
RecallFailed == RecallRejected \/ RecallTransportError \/ RecallUnprocessable

\* C5: whenever the probe returned true and the recall call then fails (a
\* non-success status, whose code the error carries, a transport error, or a
\* body that cannot be processed) and fallbackToLocal is true, the answer is
\* built from localFallbackSearch and its text starts with the error marker,
\* which differs from the offline marker.
C5_ErrorRouting ==
  (SearchDone /\ ProbeTrue /\ RecallFailed /\ fallbackToLocal) =>
    /\ recallResult.threw
    /\ RecallRejected => Includes(recallResult.error, << ToString(recallOutcome.status) >>)
    /\ fallbackCalls = 1
    /\ fallbackResult = LocalAnswer
    /\ sText = << ErrorMarker, "\n\n" >>
                 \o (IF Len(LocalAnswer) > 0 THEN NumberedResults(LocalAnswer)
                     ELSE <<"No results found.">>)
    /\ ErrorMarker # OfflineMarker
    /\ ~StartsWith(sText, OfflineMarker)

C5_Witness ==
  /\ SearchDone /\ ProbeTrue /\ fallbackToLocal
  /\ RecallRejected
  /\ recallOutcome.status = 503
  /\ Len(fallbackResult) > 0

\* C6: with fallbackToLocal false, localFallbackSearch is never called; an
\* unhealthy probe or a failed recall becomes one descriptive error text that
\* execute returns; and the recall request is sent at most once.
C6_NoFallback ==
  ~fallbackToLocal =>
    /\ fallbackCalls = 0
    /\ recallCalls <= 1
    /\ (SearchDone /\ ProbeFalse) => (sText = Unreachable /\ recallCalls = 0)
    /\ (SearchDone /\ ProbeTrue /\ RecallFailed) =>
         /\ recallResult.threw
         /\ Len(recallResult.error) > 0
         /\ sText = << SearchFailed >> \o recallResult.error
         /\ sDetails = << >>
    /\ SearchDone => Len(sText) > 0

C6_Witness ==
  /\ SearchDone /\ ProbeTrue /\ ~fallbackToLocal
  /\ RecallTransportError
  /\ recallCalls = 1

\* C7: checkHealth never throws; it sends one GET; it returns true exactly
\* when the request completed with a success status within the 3 seconds; a
\* network error, a non-success status and a timeout each yield false.
C7_CheckHealth ==
  /\ ~hThrew
  /\ hpc # "idle" => healthRequests = 1
  /\ hpc = "done" =>
       /\ hResult <=> (hOutcome.kind = "response" /\ StatusOk(hOutcome.status)
                        /\ hOutcome.at <= HealthTimeout)
       /\ hOutcome.kind \in {"network", "timeout"} => ~hResult
       /\ (hOutcome.kind = "response" /\ ~StatusOk(hOutcome.status)) => ~hResult
       /\ hOutcome.kind = "timeout" => hOutcome.at = HealthTimeout

C7_Witness ==
  /\ hpc = "done"
  /\ hOutcome.kind = "timeout"
  /\ ~hResult
  /\ spc = "done"

\* The remote facts of a successful recall response.
RemoteFacts == recallOutcome.body.results
RecallSucceeds ==
  /\ SearchDone /\ recallCalls = 1
  /\ recallOutcome.kind = "http" /\ StatusOk(recallOutcome.status)
  /\ recallOutcome.body.kind = "list"
  /\ \A i \in 1..Len(RemoteFacts) : RemoteFacts[i] \in Facts

\* C8: for every maxResults k >= 0 and every successful response with n
\* results, recall returns min(n, k) results, the first min(n, k) remote facts
\* in their order, in the formatted results, the numbered text and raw.results.
C8_Truncation ==
  RecallSucceeds =>
    LET m == Min(Len(RemoteFacts), maxResults) IN
    /\ ~recallResult.threw
    /\ Len(recallResult.results) = m
    /\ Len(recallResult.raw) = m
    /\ \A j \in 1..m :
         /\ recallResult.raw[j] = RemoteFacts[j]
         /\ recallResult.results[j].text = FactText(RemoteFacts[j])
         /\ recallResult.results[j].path = FactPath(RemoteFacts[j]).path
         /\ Includes(recallResult.text,
                     << ToString(j), ". ", TypeTag(RemoteFacts[j].type), " " >>
                       \o RemoteFacts[j].text)
    /\ ~Includes(recallResult.text, << ToString(m + 1), ". " >>)

C8_Witness ==
  /\ RecallSucceeds
  /\ Len(RemoteFacts) = MaxFacts
  /\ maxResults = MaxFacts - 1
  /\ Len(recallResult.results) = MaxFacts - 1

\* A success status whose body does not match the expected shape.
Malformed ==
  /\ recallOutcome.kind = "http" /\ StatusOk(recallOutcome.status)
  /\ \/ recallOutcome.body.kind \in {"notjson", "noresults", "nonlist"}
     \/ /\ recallOutcome.body.kind = "list"
        /\ \E i \in 1..Len(RemoteFacts) : RemoteFacts[i] \in MalformedFacts

\* C9: a success status whose body does not match the expected shape (missing
\* or non-list results, a fact lacking id or text) makes recall fail as a
\* non-success status does, and nothing of the payload is in the answer.
\* Stated for the responses maxResults does not truncate, where every fact
\* of the body is processed.
C9_MalformedRejected ==
  (SearchDone /\ Malformed /\ Len(RemoteFacts) <= maxResults) =>
    /\ recallResult.threw
    /\ recallResult.results = << >>
    /\ sDetails = << >>
    /\ \A i \in 1..Len(RemoteFacts) : ~Includes(sText, RemoteFacts[i].text)

\* --------------------------------------------------------------- C11
\* The position in the search order of a result's source: MEMORY.md first,
\* then the files of memory/ in the order readdir lists them.
SourceRank(path) ==
  IF path = MemoryMd THEN 0
  ELSE CHOOSE k \in 1..Len(workspace.files) : "memory/" \o workspace.files[k].name = path

\* How many lines of a file's content match the query.
MatchCount(content) == Len(MatchingLines(Split(content, "\n"), query, 0))

RECURSIVE DirMatchCount(_)
DirMatchCount(files) ==
  IF files = << >> THEN 0
  ELSE (IF Head(files).ok /\ EndsWithMd(Head(files).name)
        THEN MatchCount(Head(files).content) ELSE 0) + DirMatchCount(Tail(files))

\* C11: localFallbackSearch returns the first maxResults entries of the
\* sequence of all MEMORY.md matches in ascending line order followed by the
\* matches of each memory/ file in ascending line order: never more than
\* maxResults, never a match of memory/ before a match of MEMORY.md.
C11_OrderAndTruncation ==
  fpc = "done" =>
    /\ Len(pushed) = (IF workspace.memoryMd.ok THEN MatchCount(workspace.memoryMd.content)
                      ELSE 0)
                     + (IF workspace.dirOk THEN DirMatchCount(workspace.files) ELSE 0)
    /\ \A a \in 1..Len(pushed) : \A b \in (a + 1)..Len(pushed) :
         /\ SourceRank(pushed[a].path) <= SourceRank(pushed[b].path)
         /\ pushed[a].path = pushed[b].path =>
              /\ pushed[a].start_line <= pushed[b].start_line
              /\ pushed[a].end_line <= pushed[b].end_line
              /\ pushed[a].start_line < pushed[b].start_line
                   \/ pushed[a].end_line < pushed[b].end_line
                   \/ pushed[a].start_line = 1
    /\ Len(fallbackResult) <= maxResults
    /\ Len(fallbackResult) = Min(maxResults, Len(pushed))
    /\ \A j \in 1..Len(fallbackResult) : fallbackResult[j] = pushed[j]
    /\ \A a \in 1..Len(fallbackResult) : \A b \in (a + 1)..Len(fallbackResult) :
         fallbackResult[b].path = MemoryMd => fallbackResult[a].path = MemoryMd

\* A search that found more than maxResults matches returned a match of
\* MEMORY.md followed by a match of a daily note and cut the rest.
C11_Witness ==
  /\ fpc = "done"
  /\ maxResults = 2
  /\ Len(pushed) > 2
  /\ Len(fallbackResult) = 2
  /\ fallbackResult[1].path = MemoryMd
  /\ fallbackResult[2].path = "memory/" \o DailyName

\* --------------------------------------------------------------- C12
\* C12: localFallbackSearch never throws: it always returns; a MEMORY.md that
\* cannot be read, a memory/ that cannot be listed and a file of memory/ that
\* cannot be read contribute no result, and every readable source still
\* contributes one result per matching line.
C12_NeverThrows ==
  /\ fpc \in {"idle", "call", "done"}
  /\ fpc = "done" =>
       /\ Len(PushedFor(MemoryMd)) =
            (IF workspace.memoryMd.ok THEN MatchCount(workspace.memoryMd.content) ELSE 0)
       /\ \A k \in 1..Len(workspace.files) :
            LET f == workspace.files[k] IN
              Len(PushedFor("memory/" \o f.name)) =
                (IF workspace.dirOk /\ f.ok /\ EndsWithMd(f.name)
                 THEN MatchCount(f.content) ELSE 0)
       /\ fallbackResult = Slice(pushed, 0, maxResults)

\* MEMORY.md and an older note could not be read, and the search returned the
\* matches of the daily note listed after them.
C12_Witness ==
  /\ fpc = "done"
  /\ ~workspace.memoryMd.ok
  /\ \E k \in 1..Len(workspace.files) :
       /\ ~workspace.files[k].ok
       /\ EndsWithMd(workspace.files[k].name)
       /\ \E j \in (k + 1)..Len(workspace.files) :
            workspace.files[j].ok /\ PushedFor("memory/" \o workspace.files[j].name) # << >>
  /\ Len(fallbackResult) > 0

\* --------------------------------------------------------------- C13
\* A step in which the callback c fails: its read or its retain is rejected.
FailureOf(c) == ReadDone(c, FALSE) \/ RetainDone(c, FALSE)

\* C13: a read failure or a retain failure in the callback of one path leaves
\* every other path's scheduled timer and map entry as they are; a timer that
\* was scheduled at such a failure stays scheduled, with its deadline not yet
\* passed, until it fires, its own path has a new event or stop() is called.
C13_Isolation ==
  /\ [][\A c \in BagToSet(callbacks) :
          FailureOf(c) =>
            /\ \A t \in armed : t.path # c.path => t \in armed'
            /\ \A t \in armed' : t \in armed
            /\ \A w \in Watchers : \A p \in MdPaths \ {c.path} :
                 debounceTimers'[w][p] = debounceTimers[w][p]]_vars
  /\ [](survivor.stage = "pending" =>
          /\ survivor.t \in armed
          /\ TimerOf(survivor.t.w, survivor.t.path) = survivor.t
          /\ survivor.t.deadline >= now)

\* The timer of the daily note was scheduled when the callback of MEMORY.md
\* failed; it has fired since, and its retain is in flight.
C13_Witness ==
  /\ survivor.stage = "retained"
  /\ survivor.t.path = DailyMd
  /\ InFlight(survivor.t.w, DailyMd, "retaining") # {}

\* --------------------------------------------------------------- C14
WhitespaceOnly(content) == \A i \in 1..Len(content) : IsSpace(content[i])

\* C14: the callback of a fired timer retains what the file holds when it is
\* read, after the fire, and does so exactly when that content is not empty
\* or whitespace-only; the retain carries the path relative to the workspace
\* root as documentId and the content read.
C14_ReadAtFire ==
  /\ [][\A c \in BagToSet(callbacks) :
          ReadDone(c, TRUE) =>
            IF WhitespaceOnly(file[c.path])
            THEN callbacks' = callbacks (-) SetToBag({c})
            ELSE callbacks' = (callbacks (-) SetToBag({c})) (+)
                   SetToBag({[w |-> c.w, path |-> c.path, phase |-> "retaining",
                              content |-> file[c.path], documentId |-> c.path]})]_vars
  /\ [](\A c \in BagToSet(callbacks) :
          c.phase = "retaining" =>
            /\ ~WhitespaceOnly(c.content)
            /\ c.documentId \in {MemoryMd, DailyMd}
            /\ c.documentId = c.path)

\* MEMORY.md was blank at its last change event and was rewritten, without an
\* event the watcher reacts to, before the timer fired: what is retained is
\* the content read after the fire.
C14_Witness ==
  \E c \in BagToSet(callbacks) :
    /\ c.phase = "retaining"
    /\ c.path = MemoryMd
    /\ lastEvent[c.w][MemoryMd] = NoTimer
    /\ WhitespaceOnly(eventContent[c.w][MemoryMd])
    /\ c.content # eventContent[c.w][MemoryMd]
    /\ c.content = file[MemoryMd]

\* --------------------------------------------------------------- C15
\* C15: the debounce map holds at most one timer per path; a path is a key of
\* the map exactly when it has a scheduled timer that has neither fired nor
\* been cancelled; the entry is gone once the timer has fired, whatever
\* becomes of the read and the retain.
C15_PendingRetain ==
  \A w \in Watchers : \A p \in MdPaths :
    /\ Cardinality(Pending(w, p)) <= 1
    /\ debounceTimers[w][p] # NoTimer <=> Pending(w, p) # {}
    /\ debounceTimers[w][p] # NoTimer => Pending(w, p) = {TimerOf(w, p)}
    /\ \A t \in Pending(w, p) : t.deadline >= now

\* MEMORY.md's timer has fired and its callback is still reading: MEMORY.md is
\* no key of the map, while the daily note, whose timer was replaced by a
\* later event, is one.
C15_Witness ==
  \E w \in Watchers :
    /\ InFlight(w, MemoryMd, "reading") # {}
    /\ debounceTimers[w][MemoryMd] = NoTimer
    /\ debounceTimers[w][DailyMd] # NoTimer
    /\ coalesced[w][DailyMd]
    /\ Pending(w, DailyMd) = {TimerOf(w, DailyMd)}

\* --------------------------------------------------------------- C16
\* The fact sets the stub remote holds for a document id.
FactSets(id) == {f \in bank : f.document_id = id}
DocumentIds == {MemoryMd, DailyMd, ConversationId, "memory/notes.md"}
LastRequest == requests[Len(requests)]

\* C16: retain forwards each item's documentId unchanged as document_id, so
\* against a remote that replaces by document_id the bank holds at most one
\* fact set per documentId, and after an accepted retain it is the content
\* of the id's last item.
C16_Idempotent ==
  /\ \A f \in bank : f.document_id \in DocumentIds
  /\ \A id \in DocumentIds : Cardinality(FactSets(id)) <= 1
  /\ (rOp = "retain" /\ rpc \in {"posted", "settled"}) =>
       /\ Len(LastRequest.items) = Len(rItems)
       /\ \A i \in 1..Len(rItems) :
            /\ LastRequest.items[i].document_id = rItems[i].documentId
            /\ LastRequest.items[i].content = rItems[i].content
  /\ (rOp = "retain" /\ rpc = "settled" /\ rOutcome.kind = "http"
        /\ StatusOk(rOutcome.status)) =>
       \A i \in 1..Len(rItems) :
         (\A j \in (i + 1)..Len(rItems) : rItems[j].documentId # rItems[i].documentId) =>
           FactSets(rItems[i].documentId) =
             {[document_id |-> rItems[i].documentId, content |-> rItems[i].content]}

\* MEMORY.md has been retained twice, with different content, and both
\* requests were accepted: the bank holds the second content only.
C16_Witness ==
  /\ Len(requests) = 2
  /\ rpc = "settled"
  /\ StatusOk(rOutcome.status)
  /\ requests[1].endpoint = "memories"
  /\ requests[1].items = << RequestItem(RetainFileItem(MemoryMd, "v1")) >>
  /\ rItems = << RetainFileItem(MemoryMd, "v2") >>
  /\ bank = {[document_id |-> MemoryMd, content |-> "v2"]}

C18_ReflectNoFallback ==
  /\ healthRequests = 0
  /\ fallbackCalls = 0
  /\ \A k \in 1..Len(requests) : requests[k].endpoint \in {"memories", "reflect"}
  /\ "memory_reflect" \in tools => reflectEnabled
  /\ (rOp = "reflect" /\ rCaller = "tool") => reflectEnabled
  /\ (rOp = "reflect" /\ rpc = "settled"
        /\ (rOutcome.kind = "network" \/ ~StatusOk(rOutcome.status))) => rResult.threw
  /\ (rOp = "reflect" /\ rCaller = "tool" /\ rpc = "idle" /\ rResult.threw) =>
       rText = <<"Reflect failed: ">> \o rResult.error

\* memory_reflect was called while the remote is unreachable and has returned
\* the failure text.
C18_Witness ==
  /\ rOp = "reflect"
  /\ rCaller = "tool"
  /\ rpc = "idle"
  /\ rOutcome.kind = "network"
  /\ rResult.threw
  /\ Len(requests) = 1

\* --------------------------------------------------------------- C19
\* The document_id is present and contains the path separator.
IsPathId(d) == d # Undefined /\ d # Null /\ \E i \in 1..Len(d) : d[i] = "/"

\* The first n characters of an id.
FirstChars(id, n) == [i \in 1..(IF Len(id) < n THEN Len(id) ELSE n) |-> id[i]]

\* C19: the path formatFact returns is the document_id verbatim when it is
\* present and contains '/', and otherwise 'hindsight://{type}/{the first 8
\* characters of the id}'; start_line and end_line are 0.
C19_PathSynthesis ==
  fmtpc = "done" =>
    /\ ~factOut.threw
    /\ factOut.path =
         (IF IsPathId(factIn.document_id) THEN factIn.document_id
          ELSE <<"hindsight://", factIn.type, "/">> \o FirstChars(factIn.id, 8))
    /\ factOut.start_line = 0
    /\ factOut.end_line = 0

\* A fact with an id of ten characters and a document_id without separator
\* got a synthetic path with eight characters of the id.
C19_Witness ==
  /\ fmtpc = "done"
  /\ Len(factIn.id) = 10
  /\ factIn.document_id = <<"t", "1">>
  /\ Len(factOut.path) = 3 + 8
  /\ factOut.path[1] = "hindsight://"

\* --------------------------------------------------------------- C20
\* A field that is set: neither absent, null nor empty ('' counts as not set).
IsSet(v) == v \notin {Undefined, Null, << >>}

\* The positions of a token in a text.
PositionsOf(token, text) == {i \in 1..Len(text) : text[i] = token}

EntitiesLabel == "\n  Entities: "
DateLabel == "\n  Date: "
ContextLabel == "\n  Context: "

\* C20: the text formatFact returns begins with the fact's text unmodified;
\* after it come the entities line, the date line and the context line, each
\* on a new line and in this order, each present exactly when the entities are
\* not empty, occurred_start is set and context is set.
C20_EnrichmentOrder ==
  fmtpc = "done" =>
    LET out == factOut.text
        n == Len(factIn.text)
        rest == SubSeq(out, n + 1, Len(out))
        e == PositionsOf(EntitiesLabel, rest)
        d == PositionsOf(DateLabel, rest)
        c == PositionsOf(ContextLabel, rest)
    IN /\ Len(out) >= n
       /\ SubSeq(out, 1, n) = factIn.text
       /\ Cardinality(e) = (IF IsSet(factIn.entities) THEN 1 ELSE 0)
       /\ Cardinality(d) = (IF IsSet(factIn.occurred_start) THEN 1 ELSE 0)
       /\ Cardinality(c) = (IF IsSet(factIn.context) THEN 1 ELSE 0)
       /\ \A i \in e : \A j \in d \cup c : i < j
       /\ \A i \in d : \A j \in c : i < j
       /\ rest # << >> => 1 \in e \cup d \cup c
       /\ \A i \in e : \A k \in 1..Len(factIn.entities) :
            i + 2 * k - 1 <= Len(rest) /\ rest[i + 2 * k - 1] = factIn.entities[k]
       /\ \A i \in c : SubSeq(rest, i + 1, Len(rest)) = factIn.context
       /\ \A i \in d : i + 1 <= Len(rest)
       /\ Len(rest) = (IF IsSet(factIn.entities) THEN 2 * Len(factIn.entities) ELSE 0)
                        + (IF IsSet(factIn.occurred_start) THEN 2 ELSE 0)
                        + (IF IsSet(factIn.context) THEN 1 + Len(factIn.context) ELSE 0)

\* A fact with two entities, a date and a context got its three lines.
C20_Witness ==
  /\ fmtpc = "done"
  /\ factIn.entities = <<"Jared", "Missoula">>
  /\ factIn.occurred_start = <<"2026-02-22T10:00:00Z">>
  /\ factIn.context = <<"p">>
  /\ factOut.text =
       factIn.text \o << EntitiesLabel, "Jared", ", ", "Missoula", DateLabel, "2/22/2026",
                       ContextLabel, "p" >>

\* --------------------------------------------------------------- C21
Categories == {"world", "experience", "observation"}

\* Where the line of the fact numbered i starts in the returned text.
NumberAt(i) ==
  CHOOSE p \in 1..Len(textOut) - 1 : textOut[p] = ToString(i) /\ textOut[p + 1] = ". "

\* The icon the fact numbered i was rendered with.
IconOf(i) == textOut[NumberAt(i) + 2]

\* C21 as stated: the three categories are rendered with pairwise distinct
\* icons, and a fact of any other type is rendered with an icon that differs
\* from the icon of every category.
C21_FourIcons ==
  textpc = "done" =>
    \A i, j \in 1..Len(textIn.results) :
      LET ti == textIn.results[i].type
          tj == textIn.results[j].type
      IN /\ (ti \in Categories /\ tj \in Categories /\ ti # tj) => IconOf(i) # IconOf(j)
         /\ (ti \in Categories /\ tj \notin Categories) => IconOf(i) # IconOf(j)

\* C21, amended: observation and experience facts have an icon of their own;
\* a world fact and a fact of any other type are both rendered with the
\* default icon, which differs from those two; every response is rendered.
C21_Icons ==
  textpc = "done" =>
    \A i \in 1..Len(textIn.results) :
      LET ti == textIn.results[i].type
      IN /\ ti = "observation" => IconOf(i) = IconObservation
         /\ ti = "experience" => IconOf(i) = IconExperience
         /\ ti \notin {"observation", "experience"} => IconOf(i) = IconDefault
         /\ Cardinality({IconObservation, IconExperience, IconDefault}) = 3

\* A response with a world fact and a fact of an unknown type has been rendered.
C21_Witness ==
  /\ textpc = "done"
  /\ Len(textIn.results) = 2
  /\ textIn.results[1].type = "world"
  /\ textIn.results[2].type = "opinion"
  /\ IconOf(1) = IconOf(2)

\* --------------------------------------------------------------- C22
\* The positions of the returned text where a numbered line starts.
NumberPositions == {p \in 1..Len(textOut) - 1 : textOut[p + 1] = ". "}

\* C22: the returned text is the fixed sentence exactly when the response has
\* no results; otherwise it holds one numbered line per fact, numbered 1..n in
\* the order of the response, each carrying its fact's text.
C22_Sentinel ==
  textpc = "done" =>
    LET n == Len(textIn.results) IN
    /\ (textOut = NoMemories) <=> (n = 0)
    /\ n = 0 => textOut = <<"No relevant memories found.">>
    /\ n > 0 =>
         /\ Cardinality(NumberPositions) = n
         /\ NumberAt(1) = 1
         /\ \A i \in 1..n :
              LET p == NumberAt(i)
                  text == textIn.results[i].text
              IN /\ textOut[p] = ToString(i)
                 /\ textOut[p + 3] = " "
                 /\ SubSeq(textOut, p + 4, p + 3 + Len(text)) = text
                 /\ i > 1 => (NumberAt(i - 1) < p /\ textOut[p - 1] = "\n\n")

\* An empty response has been answered with the fixed sentence.
C22_Witness ==
  /\ textpc = "done"
  /\ Len(textIn.results) = 0
  /\ textOut = NoMemories

\* --------------------------------------------------------------- C23
\* C23: the item retainFile hands over has the context 'curated long-term
\* memory' only for the top-level file MEMORY.md, 'daily memory log' only for
\* a dated file memory/YYYY-MM-DD.md, and 'workspace memory file' for every
\* other path, one that merely contains 'MEMORY.md' or has it in another
\* directory included.
C23_ContextByShape ==
  itempc = "posted" =>
    /\ itemOut.context = "curated long-term memory" <=> pathIn = <<"MEMORY.md">>
    /\ itemOut.context = "daily memory log" <=>
         \E d \in DateSegments : pathIn = <<"memory", "/", d, ".md">>
    /\ itemOut.context \in {"curated long-term memory", "daily memory log",
                             "workspace memory file"}

\* --------------------------------------------------------------- C24
\* C24: when the environment variable and the config file both give a value
\* for baseUrl (HINDSIGHT_URL) or for bankId (HINDSIGHT_BANK_ID), the
\* configuration getConfig returns holds the environment variable's value.
C24_EnvPrecedence ==
  cfgpc = "done" =>
    /\ (env.HINDSIGHT_URL \notin {Unset, ""} /\ overrides.baseUrl # Unset)
          => cfgOut.baseUrl = env.HINDSIGHT_URL
    /\ (env.HINDSIGHT_BANK_ID \notin {Unset, ""} /\ overrides.bankId # Unset)
          => cfgOut.bankId = env.HINDSIGHT_BANK_ID

\* --------------------------------------------------------------- C25
\* The file read is the workspace's MEMORY.md or lies inside its memory/.
InMemoryPaths(read) ==
  \/ read = WorkspaceNames \o << <<"MEMORY.md">> >>
  \/ HasPrefix(read, WorkspaceNames \o << <<"memory">> >>)

\* C25: for every requested path memory_get either denies access, reading
\* nothing, or reads the workspace's MEMORY.md or a path inside the
\* workspace's memory/ directory.
C25_ReadsOnlyMemory ==
  getpc = "done" => (getRead = NoRead \/ InMemoryPaths(getRead))

\* --------------------------------------------------------------- C26
\* The files of the workspace a migration is to retain: those that can be
\* read and are not blank, MEMORY.md and the markdown files of memory/.
Migratable ==
  (IF migWorkspace.memoryMd.ok /\ ~WhitespaceOnly(migWorkspace.memoryMd.content)
   THEN {MemoryMd} ELSE {})
  \cup (IF migWorkspace.dirOk
        THEN {"memory/" \o migWorkspace.files[i].name : i \in
               {j \in 1..Len(migWorkspace.files) :
                  /\ migWorkspace.files[j].name \in {DailyName, OlderName, TopicName}
                  /\ migWorkspace.files[j].ok
                  /\ ~WhitespaceOnly(migWorkspace.files[j].content)}}
        ELSE {})

\* The document the request numbered i is for.
PostedId(i) == posted[i].items[1].document_id

\* C26: a run that migrates (it is not a dry run and the remote answered the
\* health check) sends its retain requests one after the other, each for one
\* file, never two for the same file, MEMORY.md before every other and the
\* dated notes of memory/ newest first; when the run is over, every file that
\* could be read and is not blank has had its request, whatever became of the
\* requests before it.
C26_MigrationOrder ==
  /\ Len(posted) = Len(outcomes) + (IF awaiting THEN 1 ELSE 0)
  /\ Len(outcomes) = succeeded + failed
  /\ \A i \in 1..Len(posted) :
       /\ Len(posted[i].items) = 1
       /\ PostedId(i) \in Migratable
       /\ PostedId(i) = MemoryMd => i = 1
       /\ \A j \in 1..Len(posted) : (i # j) => PostedId(i) # PostedId(j)
  /\ \A i, j \in 1..Len(posted) :
       (PostedId(i) = "memory/2026-02-22.md" /\ PostedId(j) = "memory/2026-02-21.md") => i < j
  /\ (mpc = "done" /\ ~dryRun) => {PostedId(i) : i \in 1..Len(posted)} = Migratable
  /\ (dryRun \/ mpc = "exited") => posted = << >>

\* A run is over in which the retain of MEMORY.md failed and both daily
\* notes were sent after it, the newer one first.
C26_Witness ==
  /\ mpc = "done"
  /\ Len(posted) = 3
  /\ outcomes[1] = "failed"
  /\ PostedId(1) = MemoryMd
  /\ PostedId(2) = "memory/2026-02-22.md"
  /\ PostedId(3) = "memory/2026-02-21.md"

C28_StoppedMeansIdle ==
  service = "stopped" =>
    \A w \in Watchers :
      /\ watches[w] = {}
      /\ \A p \in MdPaths : Pending(w, p) = {} /\ debounceTimers[w][p] = NoTimer

\* --------------------------------------------------------------- C29
\* The texts of a combined content, which are joined by blank lines.
Parts(content) == SelectSeq(Split(content, "\n"), LAMBDA part : part # << >>)

\* Whether some user message of the event has a text longer than
\* MinTextLength characters, as its content or in a text block of it.
HasLongUserText(event) ==
  \E k \in 1..Len(event.messages) :
    LET msg == event.messages[k]
    IN /\ msg.isObject
       /\ msg.role = "user"
       /\ \/ msg.content.kind = "string" /\ Len(msg.content.text) > MinTextLength
          \/ /\ msg.content.kind = "array"
             /\ \E n \in 1..Len(msg.content.blocks) :
                  /\ msg.content.blocks[n].type = "text"
                  /\ Len(msg.content.blocks[n].text) > MinTextLength

\* The turns the remote has stored under a document, in order.
AcceptedFor(doc) ==
  SelectSeq(hookAccepted, LAMBDA i : hookTurns[i].request.items[1].document_id = doc)

FirstThree(results) == SubSeq(results, 1, Min(3, Len(results)))

\* C30: the handler returns a context only for a prompt of ten characters or
\* more, after a health probe that was answered with a success status and a
\* recall that returned one result or more; the context holds the first
\* three, at most, of the facts of the response; the local fallback search
\* is never called; and the handler never raises, so that in every other
\* case it returns nothing.
C30_AutoRecall ==
  /\ bReturn # Undefined =>
       /\ autoRecall
       /\ bPrompt # Undefined
       /\ Len(bPrompt) >= 10
       /\ hResult
       /\ hOutcome.kind = "response"
       /\ StatusOk(hOutcome.status)
       /\ recallOutcome.kind = "http"
       /\ StatusOk(recallOutcome.status)
       /\ recallOutcome.body.kind = "list"
       /\ Len(recallOutcome.body.results) >= 1
       /\ Len(recallResult.results) \in 1..3
       /\ recallResult.raw = FirstThree(recallOutcome.body.results)
       /\ bReturn = <<"<relevant-memories>\n">>
                      \o FormatRecallText([results |-> FirstThree(recallOutcome.body.results),
                                           entities |-> recallOutcome.body.entities])
                      \o <<"\n</relevant-memories>">>
  /\ fallbackCalls = 0
  /\ fpc = "idle"
  /\ fallbackResult = << >>
  /\ ~bThrew
  /\ recallCalls <= 1
  /\ (recallCalls = 1) => (hResult /\ ~SkipsPrompt(bPrompt))

\* The handler has returned a context for a prompt of exactly ten characters
\* after a recall whose response had more than three facts.
C30_Witness ==
  /\ bpc = "done"
  /\ bReturn # Undefined
  /\ Len(bPrompt) = 10
  /\ Len(recallOutcome.body.results) > 3
  /\ Len(recallResult.results) = 3



============================================================================
